---- MODULE Spec2Model ----
(***************************************************************************)
(* Model of the CybLight login front-end: the client-side router           *)
(* (CybRouter), the HTTP client wrapper apiCall, the boot sequence and the *)
(* view guards of login.js, and the passkey (WebAuthn) flows.              *)
(*                                                                         *)
(* JavaScript strings that the code inspects character by character        *)
(* (location.pathname, endpoints, route tokens) are sequences of           *)
(* one-character strings, so that replace(/^\/+/, ''), includes('/') and   *)
(* endpoint.includes('/auth/me') are computed as the code computes them.   *)
(***************************************************************************)
EXTENDS Integers, Sequences, FiniteSets, TLC

(* ---------------------------------------------------------------------- *)
(* Bounds of the model                                                     *)
(* ---------------------------------------------------------------------- *)
MaxPathLen == 4
MaxHist == 3
MaxCalls == 1
TicksPerTimeout == 2

NavCap == 4

MaxBufLen == 3

MinuteTicks == 2

MaxErrorCount == 11

MaxSubmits == 4

MaxRenders == 4

\* chats opened in one run
MaxOpens == 3

\* loadChatMessages calls in flight at once
MaxChatLoads == 2

\* connectivity events in one run
MaxNetEvents == 8

MaxLoads == 2

(* ---------------------------------------------------------------------- *)
(* Route tokens, user names and endpoints as character sequences           *)
(* ---------------------------------------------------------------------- *)
R_signup == <<"s", "i", "g", "n", "u", "p">>
R_account_profile == <<"a", "c", "c", "o", "u", "n", "t", "-", "p", "r", "o", "f", "i", "l", "e">>
R_account_security == <<"a", "c", "c", "o", "u", "n", "t", "-", "s", "e", "c", "u", "r", "i", "t", "y">>
R_account_sessions == <<"a", "c", "c", "o", "u", "n", "t", "-", "s", "e", "s", "s", "i", "o", "n", "s">>
R_account_easter_eggs == <<"a", "c", "c", "o", "u", "n", "t", "-", "e", "a", "s", "t", "e", "r", "-", "e", "g", "g", "s">>
R_verify_email == <<"v", "e", "r", "i", "f", "y", "-", "e", "m", "a", "i", "l">>
R_username == <<"u", "s", "e", "r", "n", "a", "m", "e">>
R_password == <<"p", "a", "s", "s", "w", "o", "r", "d">>
R_2fa == <<"2", "f", "a">>
R_2fa_verify == <<"2", "f", "a", "-", "v", "e", "r", "i", "f", "y">>
R_reset == <<"r", "e", "s", "e", "t">>
R_done == <<"d", "o", "n", "e">>
R_strawberry_history == <<"s", "t", "r", "a", "w", "b", "e", "r", "r", "y", "-", "h", "i", "s", "t", "o", "r", "y">>
R_profile == <<"p", "r", "o", "f", "i", "l", "e">>
R_account_friends == <<"a", "c", "c", "o", "u", "n", "t", "-", "f", "r", "i", "e", "n", "d", "s">>
R_account_messages == <<"a", "c", "c", "o", "u", "n", "t", "-", "m", "e", "s", "s", "a", "g", "e", "s">>
R_edit_profile == <<"e", "d", "i", "t", "-", "p", "r", "o", "f", "i", "l", "e">>
U_alice == <<"a", "l", "i", "c", "e">>
EP_auth_me == <<"/", "a", "u", "t", "h", "/", "m", "e">>
EP_auth_login == <<"/", "a", "u", "t", "h", "/", "l", "o", "g", "i", "n">>
EP_auth_register == <<"/", "a", "u", "t", "h", "/", "r", "e", "g", "i", "s", "t", "e", "r">>
EP_auth_login_history == <<"/", "a", "u", "t", "h", "/", "l", "o", "g", "i", "n", "-", "h", "i", "s", "t", "o", "r", "y">>
EP_auth_trusted_devices == <<"/", "a", "u", "t", "h", "/", "t", "r", "u", "s", "t", "e", "d", "-", "d", "e", "v", "i", "c", "e", "s">>
EP_auth_login_history_q == <<"/", "a", "u", "t", "h", "/", "l", "o", "g", "i", "n", "-", "h", "i", "s", "t", "o", "r", "y", "?", "l", "i", "m", "i", "t", "=", "5", "0">>
EP_auth_trusted_devices_id == <<"/", "a", "u", "t", "h", "/", "t", "r", "u", "s", "t", "e", "d", "-", "d", "e", "v", "i", "c", "e", "s", "/", "7">>
EP_auth_logout == <<"/", "a", "u", "t", "h", "/", "l", "o", "g", "o", "u", "t">>
EP_auth_sessions == <<"/", "a", "u", "t", "h", "/", "s", "e", "s", "s", "i", "o", "n", "s">>
EP_auth_passkey_login == <<"/", "a", "u", "t", "h", "/", "p", "a", "s", "s", "k", "e", "y", "/", "l", "o", "g", "i", "n">>
EP_auth_passkey_login_options == <<"/", "a", "u", "t", "h", "/", "p", "a", "s", "s", "k", "e", "y", "/", "l", "o", "g", "i", "n", "/", "o", "p", "t", "i", "o", "n", "s">>
EP_auth_passkey_register == <<"/", "a", "u", "t", "h", "/", "p", "a", "s", "s", "k", "e", "y", "/", "r", "e", "g", "i", "s", "t", "e", "r">>
EP_auth_passkey_register_options == <<"/", "a", "u", "t", "h", "/", "p", "a", "s", "s", "k", "e", "y", "/", "r", "e", "g", "i", "s", "t", "e", "r", "/", "o", "p", "t", "i", "o", "n", "s">>
EP_error_report == <<"/", "e", "r", "r", "o", "r", "/", "r", "e", "p", "o", "r", "t">>
M_Failed_to_fetch == <<"F", "a", "i", "l", "e", "d", " ", "t", "o", " ", "f", "e", "t", "c", "h">>
M_NetworkError == <<"N", "e", "t", "w", "o", "r", "k", "E", "r", "r", "o", "r">>
M_NetworkError_ff == <<"N", "e", "t", "w", "o", "r", "k", "E", "r", "r", "o", "r", " ", "w", "h", "e", "n", " ", "a", "t", "t", "e", "m", "p", "t", "i", "n", "g", " ", "t", "o", " ", "f", "e", "t", "c", "h", " ", "r", "e", "s", "o", "u", "r", "c", "e", ".">>
M_Load_failed == <<"L", "o", "a", "d", " ", "f", "a", "i", "l", "e", "d">>
M_aborted == <<"s", "i", "g", "n", "a", "l", " ", "i", "s", " ", "a", "b", "o", "r", "t", "e", "d", " ", "w", "i", "t", "h", "o", "u", "t", " ", "r", "e", "a", "s", "o", "n">>
EP_auth_passkey_list == <<"/", "a", "u", "t", "h", "/", "p", "a", "s", "s", "k", "e", "y", "/", "l", "i", "s", "t">>
EP_api_friends_list == <<"/", "a", "p", "i", "/", "f", "r", "i", "e", "n", "d", "s", "/", "l", "i", "s", "t">>
EP_api_friends_pending == <<"/", "a", "p", "i", "/", "f", "r", "i", "e", "n", "d", "s", "/", "p", "e", "n", "d", "i", "n", "g">>
EP_api_friends_sent == <<"/", "a", "p", "i", "/", "f", "r", "i", "e", "n", "d", "s", "/", "s", "e", "n", "t">>
EP_auth_email_verify == <<"/", "a", "u", "t", "h", "/", "e", "m", "a", "i", "l", "/", "v", "e", "r", "i", "f", "y", "?", "t", "o", "k", "e", "n", "=", "t">>

(* ---------------------------------------------------------------------- *)
(* State                                                                   *)
(* ---------------------------------------------------------------------- *)
VARIABLES
  routerRev,     \* which router script the page loaded
  hist,          \* session history: sequence of pathnames
  histIdx,       \* index of the current entry; location.pathname = hist[histIdx]
  cybLogin,      \* sessionStorage 'cyb_login' holds a non-empty login
  twoFAUserId,   \* sessionStorage 'cyb_2fa_userId' holds a non-empty id
  view,          \* the view whose markup is in #app
  lastOp,        \* trace of the most recent router operation
  online,        \* navigator.onLine
  calls,         \* the apiCall invocations in progress
  tasks,         \* async functions suspended at an await, each with its position
  strawberry,    \* localStorage EASTER_KEY is '1' (hasStrawberryAccess)
  urlToken,      \* location.search carries a non-empty token parameter
  autoNavs,      \* CybRouter.navigate calls made since boot without a user gesture
  hasPKC,        \* window.PublicKeyCredential is defined
  passkey,       \* the passkey login / registration flow in progress
  shownMsgs,     \* which text each failed passkey flow has shown so far
  codec,         \* a byte buffer on its way through base64url encode and decode
  reporter,      \* errorCount, errorCache and the timers of the global error handlers
  eggs,          \* the easter-egg flags in localStorage and on the server
  tokenPage,     \* a visit of viewVerifyEmail or viewReset with its token
  turnstile,     \* turnstileToken, turnstileWidgetId and the page they belong to
  account,       \* the account page and the viewAccount invocations awaiting /auth/me
  form,          \* a form protected by Turnstile with its submit handlers in progress
  net,           \* the offline notification and the timers of the connectivity listeners
  chat           \* the chat container, its polling timers and the loads in flight

routerVars == <<routerRev, hist, histIdx, cybLogin, twoFAUserId, view, lastOp>>

apiVars == <<online, calls>>

navVars == <<tasks, strawberry, urlToken, autoNavs>>

passkeyVars == <<hasPKC, passkey, shownMsgs>>

auxVars == <<codec, reporter, eggs, tokenPage, turnstile>>

uiVars == <<account, form, net, chat>>

vars == <<routerVars, apiVars, navVars, passkeyVars, auxVars, uiVars>>

(* ---------------------------------------------------------------------- *)
(* String helpers (String.prototype.replace with anchored /\/+/, includes) *)
(* ---------------------------------------------------------------------- *)
Slash == "/"

RECURSIVE StripLeading(_)
StripLeading(s) ==
  IF s # <<>> /\ Head(s) = Slash THEN StripLeading(Tail(s)) ELSE s

RECURSIVE StripTrailing(_)
StripTrailing(s) ==
  IF s # <<>> /\ s[Len(s)] = Slash
    THEN StripTrailing(SubSeq(s, 1, Len(s) - 1))
    ELSE s

Includes(s, t) ==
  \E i \in 0..(Len(s) - Len(t)) : SubSeq(s, i + 1, i + Len(t)) = t

StartsWith(s, t) ==
  Len(s) >= Len(t) /\ SubSeq(s, 1, Len(t)) = t

\* Array.prototype.splice(i, 1) on a copy
RemoveAt(s, i) == SubSeq(s, 1, i - 1) \o SubSeq(s, i + 1, Len(s))

(* ---------------------------------------------------------------------- *)
(* Router scripts                                                          *)
(* ---------------------------------------------------------------------- *)
RouterRevs == {"part_000", "part_001a", "part_001b"}

routes ==
  { R_signup, R_account_profile, R_account_security, R_account_sessions,
    R_account_easter_eggs, R_verify_email, R_username, R_password, R_2fa,
    R_2fa_verify, R_reset, R_done, R_strawberry_history }

NullParam == [null |-> TRUE, throws |-> FALSE, val |-> <<>>]
SomeParam(v) == [null |-> FALSE, throws |-> FALSE, val |-> v]
ThrowsParam == [null |-> FALSE, throws |-> TRUE, val |-> <<>>]

\* getRoute without the second replace(/\/+$/, '')
getRouteKeepsTrailingSlash(pathname) ==
  LET path == StripLeading(pathname) IN
  IF path \in routes THEN path
  ELSE IF path # <<>> /\ ~Includes(path, <<Slash>>) THEN R_profile
  ELSE R_username

getRoute(pathname) ==
  LET path == StripTrailing(StripLeading(pathname)) IN
  IF path \in routes THEN path
  ELSE IF path # <<>> /\ ~Includes(path, <<Slash>>) THEN R_profile
  ELSE R_username

\* getRouteParam without the !path.includes('/') test
getRouteParamAnyPath(pathname, paramName) ==
  LET path == StripTrailing(StripLeading(pathname)) IN
  IF path # <<>> /\ paramName = "username"
    THEN SomeParam(path)
    ELSE NullParam

getRouteParam(pathname, paramName) ==
  LET path == StripTrailing(StripLeading(pathname)) IN
  IF path # <<>> /\ ~Includes(path, <<Slash>>) /\ paramName = "username"
    THEN SomeParam(path)
    ELSE NullParam

getRoute001a(pathname) ==
  LET path == StripTrailing(StripLeading(pathname)) IN
  IF path \in routes THEN path
  ELSE IF path # <<>> /\ ~Includes(path, <<Slash>>) THEN R_profile
  ELSE R_username

getRouteParam001a(pathname, paramName) ==
  LET path == StripTrailing(StripLeading(pathname)) IN
  IF path # <<>> /\ ~Includes(path, <<Slash>>) /\ paramName = "username"
    THEN SomeParam(path)
    ELSE NullParam

getRoute001b(pathname) ==
  LET path == StripTrailing(StripLeading(pathname)) IN
  IF path \in routes THEN path ELSE R_username

\* window.CybRouter as exported by the loaded script
HasGetRouteParam == routerRev \in {"part_000", "part_001a"}

CybRouterGetRoute(pathname) ==
  CASE routerRev = "part_000"  -> getRoute(pathname)
    [] routerRev = "part_001a" -> getRoute001a(pathname)
    [] routerRev = "part_001b" -> getRoute001b(pathname)

CybRouterGetRouteParam(pathname, paramName) ==
  CASE routerRev = "part_000"  -> getRouteParam(pathname, paramName)
    [] routerRev = "part_001a" -> getRouteParam001a(pathname, paramName)
    [] routerRev = "part_001b" -> ThrowsParam

Pathname == hist[histIdx]

\* pathname of the URL that history.pushState({}, '', '/' + to) installs
UrlPath(to) == <<Slash>> \o to

\* the entries after the current one are dropped and the new one appended;
\* the browser keeps at most MaxHist entries and forgets the oldest
pushState(b, path) ==
  LET h == Append(SubSeq(b.hist, 1, b.idx), path) IN
  [b EXCEPT !.hist = IF Len(h) > MaxHist THEN Tail(h) ELSE h,
            !.idx = IF Len(h) > MaxHist THEN MaxHist ELSE b.idx + 1,
            !.pushed = Append(b.pushed, path)]

\* an async function called with arg, about to reach its first await
Task(kind, arg) == [kind |-> kind, arg |-> arg, pc |-> "start"]

Show(b, v) == [b EXCEPT !.view = v]

Spawn(b, v, kind, arg) ==
  [b EXCEPT !.view = v, !.spawn = Append(b.spawn, Task(kind, arg))]

(* ---------------------------------------------------------------------- *)
(* navigate -> render -> cyb:route listener -> renderRoute -> view.        *)
(* dispatchEvent runs the listener synchronously, and the guards of        *)
(* viewPassword and view2FAVerify call CybRouter.navigate from inside it.  *)
(* ---------------------------------------------------------------------- *)
RECURSIVE navigate(_, _)
RECURSIVE render(_)
RECURSIVE renderRoute(_, _)
RECURSIVE viewPassword(_)
RECURSIVE view2FAVerify(_)

viewUsername(b) == Show(b, "viewUsername")

viewSignup(b) == Show(b, "viewSignup")

viewReset(b) == Show(b, "viewReset")

viewAccount(b, tab) == Spawn(b, "viewAccount", "viewAccount", tab)

viewEditProfile(b) == Spawn(b, "viewEditProfile", "viewEditProfile", "")

\* with a token in the URL the view clicks its own verify button
viewVerifyEmail(b) ==
  IF urlToken /\ b.pushed = <<>>
    THEN Spawn(b, "viewVerifyEmail", "viewVerifyEmail", "")
    ELSE Show(b, "viewVerifyEmail")

viewDone(b) == Spawn(b, "viewDone", "viewDone", "")

\* without the local flag nothing is rendered until /auth/me has answered
viewStrawberryHistory(b) ==
  IF strawberry
    THEN Show(b, "viewStrawberryHistory")
    ELSE Spawn(b, b.view, "viewStrawberryHistory", "")

renderProfile(b) == Spawn(b, "profile", "renderProfile", "")

viewPassword(b) ==
  IF ~cybLogin THEN navigate(b, R_username) ELSE Show(b, "viewPassword")

view2FAVerify(b) ==
  IF ~twoFAUserId THEN navigate(b, R_username) ELSE Show(b, "view2FAVerify")

renderRoute(b, r) ==
  CASE r = R_account_profile     -> viewAccount(b, "profile")
    [] r = R_account_security    -> viewAccount(b, "security")
    [] r = R_account_sessions    -> viewAccount(b, "sessions")
    [] r = R_account_easter_eggs -> viewAccount(b, "easter")
    [] r = R_account_friends     -> viewAccount(b, "friends")
    [] r = R_account_messages    -> viewAccount(b, "messages")
    [] r = R_edit_profile        -> viewEditProfile(b)
    [] r = R_verify_email        -> viewVerifyEmail(b)
    [] r = R_2fa_verify          -> view2FAVerify(b)
    [] r = R_profile ->
         LET username == CybRouterGetRouteParam(b.hist[b.idx], "username") IN
         IF username.throws THEN b
         ELSE IF ~username.null THEN renderProfile(b)
         ELSE viewUsername(b)
    [] r = R_signup              -> viewSignup(b)
    [] r = R_username            -> viewUsername(b)
    [] r = R_password            -> viewPassword(b)
    [] r = R_reset               -> viewReset(b)
    [] r = R_done                -> viewDone(b)
    [] r = R_strawberry_history  -> viewStrawberryHistory(b)
    [] OTHER                     -> viewUsername(b)

\* render that dispatches the cyb:route event twice
renderTwice(b) ==
  LET route == CybRouterGetRoute(b.hist[b.idx]) IN
  renderRoute([b EXCEPT !.dispatched = Append(Append(b.dispatched, route), route)], route)

render(b) ==
  LET route == CybRouterGetRoute(b.hist[b.idx]) IN
  renderRoute([b EXCEPT !.dispatched = Append(b.dispatched, route)], route)

navigate(b, to) == render(pushState(b, UrlPath(to)))

Browser ==
  [hist |-> hist, idx |-> histIdx, view |-> view,
   pushed |-> <<>>, dispatched |-> <<>>, spawn |-> <<>>]

(* ---------------------------------------------------------------------- *)
(* apiCall: fetch with an abort timer, the offline short-circuit, the 401  *)
(* redirect and the synthetic response of the catch block                  *)
(* ---------------------------------------------------------------------- *)
DefaultTimeoutMs == 10000

CallIds == 1..MaxCalls

Endpoints ==
  { EP_auth_me, EP_auth_login, EP_auth_register, EP_auth_login_history_q,
    EP_auth_trusted_devices_id, EP_auth_sessions, EP_auth_passkey_login_options }

Statuses == {200, 401, 500}

\* what fetch() rejects with: a TypeError for a network failure (the message
\* depends on the browser), or the AbortError of controller.abort()
FetchErrors ==
  { [name |-> "TypeError", message |-> M_Failed_to_fetch],
    [name |-> "TypeError", message |-> M_NetworkError_ff],
    [name |-> "TypeError", message |-> M_Load_failed],
    [name |-> "TypeError", message |-> <<>>] }

AbortError == [name |-> "AbortError", message |-> M_aborted]

NoResult ==
  [kind |-> "none", ok |-> FALSE, status |-> 0, statusText |-> "", error |-> ""]

FreeCall ==
  [pc |-> "free", endpoint |-> <<>>, timeoutMs |-> 0, timer |-> "none",
   remaining |-> 0, elapsed |-> 0, aborted |-> FALSE, fetchIssued |-> FALSE,
   fetch |-> "none", onLine |-> TRUE, hang |-> FALSE, navigated |-> FALSE, result |-> NoResult]

\* a Response of the server
Response(status) ==
  [kind |-> "response", ok |-> (status >= 200 /\ status <= 299),
   status |-> status, statusText |-> "http", error |-> ""]

OfflineResponse ==
  [kind |-> "synthetic", ok |-> FALSE, status |-> 0,
   statusText |-> "No internet connection", error |-> "MSG_OFFLINE"]

\* errorMessage of the catch block
ErrorMessage(error) ==
  IF error.name = "AbortError" THEN "MSG_TIMEOUT"
  ELSE IF Includes(error.message, M_Failed_to_fetch) THEN "MSG_CONNECT"
  ELSE IF Includes(error.message, M_NetworkError) THEN "MSG_NETWORK"
  ELSE IF error.message # <<>> THEN "MSG_ERROR_MESSAGE"
  ELSE "MSG_UNKNOWN"

ErrorResponse(error) ==
  [kind |-> "synthetic", ok |-> FALSE, status |-> 0,
   statusText |-> IF error.name = "AbortError" THEN "Request timeout"
                  ELSE "error.message",
   error |-> ErrorMessage(error)]

\* the catch block rethrowing what it does not recognise
CatchBlockRethrows(c, error) ==
  IF error.name = "AbortError" \/ Includes(error.message, M_Failed_to_fetch)
    THEN [c EXCEPT !.pc = "returned", !.result = ErrorResponse(error)]
    ELSE [c EXCEPT !.pc = "rejected"]

CatchBlock(c, error) ==
  [c EXCEPT !.pc = "returned", !.result = ErrorResponse(error)]

\* the 401 rule that leaves out the last two includes
Is401RedirectShortList(endpoint, status) ==
  /\ status = 401
  /\ ~Includes(endpoint, EP_auth_me)
  /\ ~Includes(endpoint, EP_auth_login)
  /\ ~Includes(endpoint, EP_auth_register)

Is401Redirect(endpoint, status) ==
  /\ status = 401
  /\ ~Includes(endpoint, EP_auth_me)
  /\ ~Includes(endpoint, EP_auth_login)
  /\ ~Includes(endpoint, EP_auth_register)
  /\ ~Includes(endpoint, EP_auth_login_history)
  /\ ~Includes(endpoint, EP_auth_trusted_devices)

\* apiCall that skips the navigator.onLine test
apiCallBeginNoOfflineCheck(endpoint, timeoutMs, onLine, hang) ==
  [FreeCall EXCEPT !.pc = "fetching", !.endpoint = endpoint,
                   !.timeoutMs = timeoutMs, !.onLine = onLine, !.hang = hang,
                   !.timer = "armed", !.remaining = TicksPerTimeout,
                   !.fetchIssued = TRUE, !.fetch = "pending"]

\* apiCall whose timer callback is never scheduled
apiCallBeginNoTimer(endpoint, timeoutMs, onLine, hang) ==
  IF ~onLine
    THEN [FreeCall EXCEPT !.pc = "returned", !.endpoint = endpoint,
                          !.timeoutMs = timeoutMs, !.onLine = FALSE,
                          !.result = OfflineResponse]
    ELSE [FreeCall EXCEPT !.pc = "fetching", !.endpoint = endpoint,
                          !.timeoutMs = timeoutMs, !.hang = hang,
                          !.fetchIssued = TRUE, !.fetch = "pending"]

\* apiCall up to `await fetch(...)`
apiCallBegin(endpoint, timeoutMs, onLine, hang) ==
  IF ~onLine
    THEN [FreeCall EXCEPT !.pc = "returned", !.endpoint = endpoint,
                          !.timeoutMs = timeoutMs, !.onLine = FALSE,
                          !.result = OfflineResponse]
    ELSE [FreeCall EXCEPT !.pc = "fetching", !.endpoint = endpoint,
                          !.timeoutMs = timeoutMs, !.hang = hang,
                          !.timer = "armed", !.remaining = TicksPerTimeout,
                          !.fetchIssued = TRUE, !.fetch = "pending"]

(* ---------------------------------------------------------------------- *)
(* Passkey login (viewUsername, #keyLogin) and registration               *)
(* (bindTabActions, registerPasskey): what is shown, sent and asked of     *)
(* navigator.credentials                                                   *)
(* ---------------------------------------------------------------------- *)
NoMsg == [channel |-> "none", type |-> "", text |-> ""]

\* window.alert(text)
Alert(text) == [channel |-> "alert", type |-> "", text |-> text]

\* api.showMsg(type, text)
ShowMsg(type, text) == [channel |-> "showMsg", type |-> type, text |-> text]

\* what the options endpoint answered, as far as the handlers look at it:
\* shape tells whether data.options and data.challengeId are present and
\* whether options.challenge is base64 that atob accepts
NoRes == [o |-> "none", shape |-> "none", challengeId |-> ""]

NoFlow ==
  [flow |-> "none", pc |-> "idle", requests |-> <<>>, credCalls |-> 0, msg |-> NoMsg,
   optionsRes |-> NoRes, ceremony |-> "none", verifyRes |-> "none",
   challengeId |-> "", postChallengeId |-> "", navigated |-> FALSE,
   disabled |-> FALSE, failure |-> "none"]

\* what apiCall leaves in `res` and `data`: ok (res.ok and data.ok), notok
\* (res.ok, data.ok falsy), 401, fail (any other status, or the synthetic
\* response of the offline test and of the catch block)
Outcomes == {"ok", "notok", "401", "fail"}

StatusOf(o) ==
  CASE o = "ok" -> 200 [] o = "notok" -> 200 [] o = "401" -> 401 [] OTHER -> 500

\* the 401 rule applied to a response, as seen by the caller of apiCall
apiCallReturn(b, endpoint, o) ==
  IF Is401Redirect(endpoint, StatusOf(o)) THEN navigate(b, R_username) ELSE b

\* the #keyLogin handler that omits the window.PublicKeyCredential test
keyLoginClickNoCheck(pkc) ==
  [NoFlow EXCEPT !.flow = "login", !.pc = "options", !.disabled = TRUE,
                 !.requests = <<EP_auth_passkey_login_options>>]

\* the #keyLogin click handler up to its first await; the button is disabled
\* once the capability test has passed
keyLoginClick(pkc) ==
  IF ~pkc
    THEN [NoFlow EXCEPT !.flow = "login", !.pc = "done",
                        !.msg = Alert("T_LOGIN_UNSUPPORTED")]
    ELSE [NoFlow EXCEPT !.flow = "login", !.pc = "options", !.disabled = TRUE,
                        !.requests = <<EP_auth_passkey_login_options>>]

\* registerPasskey up to its first await; #addPasskeyBtn is never disabled
registerPasskey(pkc) ==
  IF ~pkc
    THEN [NoFlow EXCEPT !.flow = "register", !.pc = "done",
                        !.msg = ShowMsg("error", "T_REG_UNSUPPORTED")]
    ELSE [NoFlow EXCEPT !.flow = "register", !.pc = "options",
                        !.requests = <<EP_auth_passkey_register_options>>]

\* the flow stops and the catch block or the early return reports msg; the
\* finally block of the login handler enables the button again
Stop(f, msg) == [f EXCEPT !.pc = "done", !.msg = msg, !.disabled = FALSE]

\* Stop, remembering which of the failure outcomes led to it
StopAs(f, kind, msg) == [Stop(f, msg) EXCEPT !.failure = kind]

ChallengeIds == {"c1", "c2"}

OptionsResponses ==
  { [o |-> o, shape |-> "none", challengeId |-> ""] : o \in Outcomes \ {"ok"} }
  \cup { [o |-> "ok", shape |-> sh, challengeId |-> c] :
           sh \in {"full", "noOptions", "badChallenge"}, c \in ChallengeIds }
  \cup { [o |-> "ok", shape |-> "noChallengeId", challengeId |-> ""] }

\* the options handler that asks the server again after a failed answer
passkeyAfterOptionsRetry(f, res) ==
  IF res.o # "ok"
    THEN [f EXCEPT !.optionsRes = res,
                   !.requests = Append(@, f.requests[1])]
    ELSE [f EXCEPT !.pc = "ceremony", !.credCalls = @ + 1, !.optionsRes = res,
                   !.challengeId = res.challengeId]

\* after the options request has answered
passkeyAfterOptions(f, res) ==
  LET g == [f EXCEPT !.optionsRes = res] IN
  IF f.flow = "login"
    THEN CASE res.o \in {"401", "fail"} -> Stop(g, Alert("T_LOGIN_SERVER_ERROR"))
           [] res.o = "notok" \/ res.shape \in {"noOptions", "noChallengeId"} ->
                Stop(g, Alert("T_LOGIN_BAD_RESPONSE"))
           [] res.shape = "badChallenge" -> Stop(g, Alert("T_ERR_MESSAGE"))
           [] OTHER -> [g EXCEPT !.pc = "ceremony", !.credCalls = @ + 1,
                                 !.challengeId = res.challengeId]
    ELSE CASE res.o # "ok" -> Stop(g, ShowMsg("error", "T_REG_OPTIONS_FAILED"))
           [] res.shape \in {"noOptions", "badChallenge"} ->
                Stop(g, ShowMsg("error", "T_ERR_MESSAGE"))
           [] OTHER -> [g EXCEPT !.pc = "ceremony", !.credCalls = @ + 1]

\* what navigator.credentials.get / create settles with
CeremonyResults ==
  {"credential", "null", "NotAllowedError", "InvalidStateError", "OtherError"}

\* the ceremony handler without the `if (!credential)` test
passkeyAfterCeremonyAcceptsNull(f, r) ==
  LET g == [f EXCEPT !.ceremony = r] IN
  IF r \in {"credential", "null"}
    THEN [g EXCEPT !.pc = "finish", !.postChallengeId = f.challengeId,
                   !.requests = Append(@, IF f.flow = "login"
                                            THEN EP_auth_passkey_login
                                            ELSE EP_auth_passkey_register)]
    ELSE Stop(g, Alert("T_ERR_MESSAGE"))

passkeyAfterCeremony(f, r) ==
  LET g == [f EXCEPT !.ceremony = r] IN
  IF f.flow = "login"
    THEN CASE r = "credential" ->
                [g EXCEPT !.pc = "finish", !.postChallengeId = f.challengeId,
                          !.requests = Append(@, EP_auth_passkey_login)]
           [] r = "null" -> StopAs(g, "null", Alert("T_LOGIN_CANCELLED"))
           [] r = "NotAllowedError" ->
                StopAs(g, "NotAllowedError", Alert("T_LOGIN_NOT_ALLOWED"))
           [] r = "InvalidStateError" -> Stop(g, Alert("T_LOGIN_KEY_NOT_FOUND"))
           [] OTHER                   -> Stop(g, Alert("T_ERR_MESSAGE"))
    ELSE CASE r = "credential" ->
                [g EXCEPT !.pc = "finish",
                          !.requests = Append(@, EP_auth_passkey_register)]
           [] r = "null" -> StopAs(g, "null", ShowMsg("error", "T_REG_CANCELLED"))
           [] r = "NotAllowedError" ->
                StopAs(g, "NotAllowedError", ShowMsg("warn", "T_REG_CANCELLED"))
           [] OTHER -> Stop(g, ShowMsg("error", "T_ERR_MESSAGE"))

\* after /auth/passkey/login or /auth/passkey/register has answered
passkeyAfterFinish(f, o) ==
  LET g == [f EXCEPT !.verifyRes = o] IN
  IF f.flow = "login"
    THEN IF o \in {"401", "fail"}
           THEN StopAs(g, "server", Alert("T_LOGIN_FAILED"))
           ELSE [g EXCEPT !.pc = "done", !.navigated = TRUE, !.disabled = FALSE]
    ELSE IF o = "ok"
           THEN [g EXCEPT !.pc = "reload", !.msg = ShowMsg("ok", "T_REG_ADDED"),
                          !.requests = Append(@, EP_auth_passkey_list)]
           ELSE StopAs(g, "server", ShowMsg("error", "T_REG_SAVE_FAILED"))

\* the failure outcomes whose messages are compared
FailureKinds == {"null", "NotAllowedError", "server"}

(* ---------------------------------------------------------------------- *)
(* base64url as the WebAuthn flows do it: btoa / atob of the browser and   *)
(* the replace() calls around them. Buffers are sequences of bytes.        *)
(* ---------------------------------------------------------------------- *)
B64Alphabet ==
  <<"A", "B", "C", "D", "E", "F", "G", "H", "I", "J", "K", "L", "M", "N",
   "O", "P", "Q", "R", "S", "T", "U", "V", "W", "X", "Y", "Z", "a", "b",
   "c", "d", "e", "f", "g", "h", "i", "j", "k", "l", "m", "n", "o", "p",
   "q", "r", "s", "t", "u", "v", "w", "x", "y", "z", "0", "1", "2", "3",
   "4", "5", "6", "7", "8", "9", "+", "/">>

B64Index(c) == CHOOSE i \in 1..Len(B64Alphabet) : B64Alphabet[i] = c

B64Char(sextet) == B64Alphabet[sextet + 1]

\* String.prototype.replace(/x/g, y) on a sequence of characters
ReplaceAll(s, x, y) == [i \in DOMAIN s |-> IF s[i] = x THEN y ELSE s[i]]

\* String.prototype.replace(/x/g, '')
RECURSIVE RemoveAll(_, _)
RemoveAll(s, x) ==
  IF s = <<>> THEN <<>>
  ELSE IF Head(s) = x THEN RemoveAll(Tail(s), x)
  ELSE <<Head(s)>> \o RemoveAll(Tail(s), x)

\* btoa(String.fromCharCode(...bytes)): three bytes give four characters,
\* a rest of one or two bytes is padded with '='
RECURSIVE btoa(_)
btoa(bytes) ==
  CASE Len(bytes) = 0 -> <<>>
    [] Len(bytes) = 1 ->
         LET n == bytes[1] * 16 IN
         <<B64Char(n \div 64), B64Char(n % 64), "=", "=">>
    [] Len(bytes) = 2 ->
         LET n == (bytes[1] * 256 + bytes[2]) * 4 IN
         <<B64Char(n \div 4096), B64Char((n \div 64) % 64), B64Char(n % 64), "=">>
    [] OTHER ->
         LET n == bytes[1] * 65536 + bytes[2] * 256 + bytes[3] IN
         <<B64Char(n \div 262144), B64Char((n \div 4096) % 64),
           B64Char((n \div 64) % 64), B64Char(n % 64)>>
         \o btoa(SubSeq(bytes, 4, Len(bytes)))

\* the padding step of atob (forgiving-base64 decode): with a length that is
\* a multiple of four, one or two trailing '=' are removed
StripPadding(s) ==
  IF Len(s) % 4 = 0 /\ Len(s) > 0 /\ s[Len(s)] = "="
    THEN IF s[Len(s) - 1] = "="
           THEN SubSeq(s, 1, Len(s) - 2)
           ELSE SubSeq(s, 1, Len(s) - 1)
    ELSE s

RECURSIVE DecodeSextets(_)
DecodeSextets(s) ==
  CASE Len(s) = 0 -> <<>>
    [] Len(s) = 2 ->
         LET n == (B64Index(s[1]) - 1) * 64 + (B64Index(s[2]) - 1) IN
         <<n \div 16>>
    [] Len(s) = 3 ->
         LET n == (B64Index(s[1]) - 1) * 4096 + (B64Index(s[2]) - 1) * 64
                  + (B64Index(s[3]) - 1) IN
         <<n \div 1024, (n \div 4) % 256>>
    [] OTHER ->
         LET n == (B64Index(s[1]) - 1) * 262144 + (B64Index(s[2]) - 1) * 4096
                  + (B64Index(s[3]) - 1) * 64 + (B64Index(s[4]) - 1) IN
         <<n \div 65536, (n \div 256) % 256, n % 256>>
         \o DecodeSextets(SubSeq(s, 5, Len(s)))

\* atob throws InvalidCharacterError for a character outside the alphabet or
\* a length that leaves one character over; the throw is the value <<-1>>,
\* which no byte sequence equals
InvalidCharacterError == <<-1>>

atob(s) ==
  LET t == StripPadding(s) IN
  IF Len(t) % 4 = 1 \/ \E i \in DOMAIN t : t[i] \notin { B64Alphabet[k] : k \in DOMAIN B64Alphabet }
    THEN InvalidCharacterError
    ELSE DecodeSextets(t)

\* the same value in base64url with the '=' padding left in, as a server may send it
base64urlPadded(bytes) ==
  ReplaceAll(ReplaceAll(btoa(bytes), "+", "-"), "/", "_")

\* btoa(...).replace(/\+/g, '-').replace(/\//g, '_').replace(/=/g, '')
base64urlEncode(bytes) ==
  RemoveAll(ReplaceAll(ReplaceAll(btoa(bytes), "+", "-"), "/", "_"), "=")

\* decode that forgets to map '_' back to '/'
base64urlDecodeOnlyMinus(s) == atob(ReplaceAll(s, "-", "+"))

\* Uint8Array.from(atob(s.replace(/-/g, '+').replace(/_/g, '/')), c => c.charCodeAt(0))
base64urlDecode(s) == atob(ReplaceAll(ReplaceAll(s, "-", "+"), "_", "/"))

NoCodec ==
  [pc |-> "idle", buf |-> <<>>, encoded |-> <<>>, decoded |-> <<>>,
   decodedPadded |-> <<>>]

(* ---------------------------------------------------------------------- *)
(* Global error handlers: window.onerror, window.onunhandledrejection      *)
(* ---------------------------------------------------------------------- *)
MAX_ERRORS_PER_MINUTE == 10

\* a captured synchronous error: message, source and line as strings
SyncErrors ==
  { [message |-> <<"a">>,           source |-> <<"b", ":", "s">>, lineno |-> <<"1">>],
    [message |-> <<"a", ":", "b">>, source |-> <<"s">>,           lineno |-> <<"1">>] }

\* the reason of an unhandled rejection: only its message is used
RejectionReasons == { [message |-> <<"a">>], [message |-> <<"b">>] }

\* `${message}:${source}:${lineno}`
syncErrorKey(e) == e.message \o <<":">> \o e.source \o <<":">> \o e.lineno

\* `${error?.message}:promise`
promiseErrorKey(e) == e.message \o <<":", "p", "r", "o", "m", "i", "s", "e">>

\* the keys errorCache can hold for the errors above
ErrorKeys ==
  { syncErrorKey(e) : e \in SyncErrors } \cup { promiseErrorKey(e) : e \in RejectionReasons }

\* a synchronous error whose key has not occurred before and does not occur
\* again: errorCache.has is false for it, and its entry is never looked up
\* later
FreshKey == <<"f", "r", "e", "s", "h">>

NoHandled == [handler |-> "none", key |-> <<>>, duplicate |-> FALSE, reported |-> FALSE,
              countBefore |-> 0, countAfter |-> 0, sinceCached |-> 0]

\* errorCache maps a key to the ticks left until its setTimeout deletes it
\* (0: not in the set); decTimers[r] is the number of pending
\* setTimeout(() => errorCount--) callbacks that fire in r ticks;
\* reports[a] is the number of /error/report calls made a ticks ago;
\* sinceCached and quiet measure time for the claims
NoReporter ==
  [errorCount |-> 0,
   errorCache |-> [k \in ErrorKeys |-> 0],
   decTimers |-> [r \in 1..MinuteTicks |-> 0],
   reports |-> [a \in 0..(MinuteTicks - 1) |-> 0],
   sinceCached |-> [k \in ErrorKeys |-> MinuteTicks],
   quiet |-> MinuteTicks,
   handled |-> NoHandled]

has(st, key) == key \in ErrorKeys /\ st.errorCache[key] > 0

\* errorCache.add(errorKey); setTimeout(() => errorCache.delete(errorKey), 60000)
cacheAdd(st, key) ==
  IF key \in ErrorKeys
    THEN [st EXCEPT !.errorCache[key] = MinuteTicks, !.sinceCached[key] = 0]
    ELSE st

SinceCached(st, key) == IF key \in ErrorKeys THEN st.sinceCached[key] ELSE MinuteTicks

\* apiCall('/error/report', ...)
report(st) == [st EXCEPT !.reports[0] = @ + 1]

Handled(st0, st, h, key, dup, rep) ==
  [st EXCEPT !.quiet = 0,
             !.handled = [handler |-> h, key |-> key, duplicate |-> dup, reported |-> rep,
                          countBefore |-> st0.errorCount, countAfter |-> st.errorCount,
                          sinceCached |-> SinceCached(st0, key)]]

\* onerror that counts the error before it looks in the cache
onerrorCountsDuplicates(st, key) ==
  LET counted == [st EXCEPT !.errorCount = @ + 1] IN
  IF has(st, key)
    THEN Handled(st, counted, "onerror", key, TRUE, FALSE)
    ELSE LET cached == cacheAdd(counted, key) IN
         IF cached.errorCount > MAX_ERRORS_PER_MINUTE
           THEN Handled(st, cached, "onerror", key, FALSE, FALSE)
           ELSE Handled(st, report([cached EXCEPT !.decTimers[MinuteTicks] = @ + 1]),
                        "onerror", key, FALSE, TRUE)

\* window.onerror
onerror(st, key) ==
  IF has(st, key)
    THEN Handled(st, st, "onerror", key, TRUE, FALSE)
    ELSE LET cached == cacheAdd(st, key)
             counted == [cached EXCEPT !.errorCount = @ + 1] IN
         IF counted.errorCount > MAX_ERRORS_PER_MINUTE
           THEN Handled(st, counted, "onerror", key, FALSE, FALSE)
           ELSE Handled(st, report([counted EXCEPT !.decTimers[MinuteTicks] = @ + 1]),
                        "onerror", key, FALSE, TRUE)

\* onunhandledrejection without the rate limit
onunhandledrejectionNoLimit(st, key) ==
  IF has(st, key)
    THEN Handled(st, st, "onunhandledrejection", key, TRUE, FALSE)
    ELSE LET cached == cacheAdd(st, key)
             counted == [cached EXCEPT !.errorCount = @ + 1] IN
         Handled(st, report(counted), "onunhandledrejection", key, FALSE, TRUE)

\* window.onunhandledrejection: no errorCount-- is scheduled here
onunhandledrejection(st, key) ==
  IF has(st, key)
    THEN Handled(st, st, "onunhandledrejection", key, TRUE, FALSE)
    ELSE LET cached == cacheAdd(st, key)
             counted == [cached EXCEPT !.errorCount = @ + 1] IN
         IF counted.errorCount > MAX_ERRORS_PER_MINUTE
           THEN Handled(st, counted, "onunhandledrejection", key, FALSE, FALSE)
           ELSE Handled(st, report(counted), "onunhandledrejection", key, FALSE, TRUE)

Capped(n) == IF n < MinuteTicks THEN n + 1 ELSE MinuteTicks

\* one tick of the clock: the callbacks that are due run, the others come closer
timersAdvance(st) ==
  [st EXCEPT
     !.errorCount = @ - st.decTimers[1],
     !.errorCache = [k \in ErrorKeys |-> IF st.errorCache[k] > 0 THEN st.errorCache[k] - 1 ELSE 0],
     !.decTimers = [r \in 1..MinuteTicks |-> IF r < MinuteTicks THEN st.decTimers[r + 1] ELSE 0],
     !.reports = [a \in 0..(MinuteTicks - 1) |-> IF a = 0 THEN 0 ELSE st.reports[a - 1]],
     !.sinceCached = [k \in ErrorKeys |-> Capped(st.sinceCached[k])],
     !.quiet = Capped(@)]

RECURSIVE SumTo(_, _)
SumTo(f, n) == IF n < 0 THEN 0 ELSE f[n] + SumTo(f, n - 1)

\* the /error/report calls of the last 60 seconds
ReportsInWindow(st) == SumTo(st.reports, MinuteTicks - 1)

EP_auth_recovery_finish == <<"/", "a", "u", "t", "h", "/", "r", "e", "c", "o", "v", "e", "r", "y", "/", "f", "i", "n", "i", "s", "h">>
EP_auth_easter_strawberry == <<"/", "a", "u", "t", "h", "/", "e", "a", "s", "t", "e", "r", "/", "s", "t", "r", "a", "w", "b", "e", "r", "r", "y">>
EP_auth_easter_dark_trigger == <<"/", "a", "u", "t", "h", "/", "e", "a", "s", "t", "e", "r", "/", "d", "a", "r", "k", "-", "t", "r", "i", "g", "g", "e", "r">>

(* ---------------------------------------------------------------------- *)
(* Easter-egg flags: localStorage against the server                       *)
(* ---------------------------------------------------------------------- *)
EasterFlags == {"strawberry", "darkTrigger"}

SyncEndpoint(flag) ==
  IF flag = "strawberry" THEN EP_auth_easter_strawberry ELSE EP_auth_easter_dark_trigger

NoFlags == [f \in EasterFlags |-> FALSE]

\* local: hasStrawberryAccess() / hasDarkTriggerAccess(); server: the flags of
\* the account; requests: the sync endpoints called; lacking: the flags an ok
\* response showed missing on the server while they were set locally
NoEaster ==
  [pc |-> "idle", path |-> "none", local |-> NoFlags, server |-> NoFlags,
   requests |-> <<>>, lacking |-> {}]

\* what a login response or /auth/me carries: not ok, or the account's flags
UserResponses(st) ==
  { [ok |-> FALSE, easter |-> NoFlags], [ok |-> TRUE, easter |-> st.server] }

\* history for the claims: an ok response lacks a flag that is set locally
showsLacking(st, flag, resp) ==
  IF resp.ok /\ ~resp.easter[flag] /\ st.local[flag]
    THEN [st EXCEPT !.lacking = @ \cup {flag}]
    ELSE st

\* if (hasLocally && !hasOnServer) { apiCall(sync) } else if (hasOnServer) { set...Access() }
syncFlag(st0, flag, resp, o) ==
  LET st == showsLacking(st0, flag, resp)
      hasOnServer == resp.ok /\ resp.easter[flag] IN
  IF st.local[flag] /\ ~hasOnServer
    THEN [st EXCEPT !.requests = Append(@, SyncEndpoint(flag)),
                    !.server[flag] = @ \/ o = "ok"]
    ELSE IF hasOnServer
           THEN [st EXCEPT !.local[flag] = TRUE]
           ELSE st

\* a new login or page load: what was observed before belongs to an earlier one
fresh(st) == [st EXCEPT !.requests = <<>>, !.lacking = {}]

\* viewPassword submit, after a successful login: both flags from the login response
passwordLoginSync(st, resp, o1, o2) ==
  syncFlag(syncFlag(st, "strawberry", resp, o1), "darkTrigger", resp, o2)

\* signup and 2FA verify: one /auth/me per flag
meSync(st, me1, o1, me2, o2) ==
  syncFlag(syncFlag(st, "strawberry", me1, o1), "darkTrigger", me2, o2)

\* viewAccount, load me: a flag of the server is stored locally, nothing is sent
viewAccountLoadMe(st, me) ==
  IF ~me.ok
    THEN [st EXCEPT !.pc = "login"]
    ELSE LET s1 == showsLacking(showsLacking(st, "strawberry", me), "darkTrigger", me) IN
         [s1 EXCEPT !.pc = "account",
                    !.local = [f \in EasterFlags |-> s1.local[f] \/ me.easter[f]]]

(* ---------------------------------------------------------------------- *)
(* Token pages: viewVerifyEmail and viewReset opened with ?token=          *)
(* ---------------------------------------------------------------------- *)
\* urlToken: location.search holds the token; token: the const of the view's
\* closure is not empty; requests: submissions of the token awaiting their
\* response; checks: checkSession calls awaited after a verified email;
\* timers: pending setTimeout callbacks that leave the page
NoTokenPage ==
  [view |-> "none", pc |-> "idle", urlToken |-> FALSE, token |-> FALSE, disabled |-> FALSE,
   requests |-> 0, checks |-> 0, timers |-> 0, modal |-> FALSE, msg |-> "none",
   submissions |-> 0, succeeded |-> FALSE]

TokenViews == {"viewVerifyEmail", "viewReset"}

\* verifyBtn.onclick that leaves the button enabled
verifyBtnClickStaysEnabled(st) ==
  [st EXCEPT !.requests = @ + 1, !.submissions = @ + 1]

\* verifyBtn.onclick up to the await of apiCall(.../auth/email/verify?token=...)
verifyBtnClick(st) ==
  [st EXCEPT !.disabled = TRUE, !.requests = @ + 1, !.submissions = @ + 1]

\* viewVerifyEmail: without a token the button is disabled, with one it is clicked
viewVerifyEmailRender(st) ==
  IF ~st.urlToken
    THEN [st EXCEPT !.pc = "shown", !.token = FALSE, !.disabled = TRUE, !.msg = "error"]
    ELSE verifyBtnClick([st EXCEPT !.pc = "shown", !.token = TRUE])

\* viewReset: the new-password form when there is a token, the request form otherwise
viewResetRender(st) == [st EXCEPT !.pc = "shown", !.token = st.urlToken]

\* #fReset submit: the validation returns leave the button disabled
fResetSubmit(st, valid) ==
  IF ~valid
    THEN [st EXCEPT !.disabled = TRUE, !.msg = "error"]
    ELSE [st EXCEPT !.disabled = TRUE, !.msg = "none", !.requests = @ + 1,
                    !.submissions = @ + 1]

\* leaving the page: CybRouter.navigate to a route without a query
leave(st) == [st EXCEPT !.pc = "left", !.urlToken = FALSE, !.modal = FALSE]

\* the response of the submission reaches the handler
tokenSubmitReturn(st0, o) ==
  LET st == [st0 EXCEPT !.requests = @ - 1] IN
  CASE Is401Redirect(IF st.view = "viewReset" THEN EP_auth_recovery_finish
                       ELSE EP_auth_email_verify, StatusOf(o)) ->
         [leave(st) EXCEPT !.disabled = FALSE, !.msg = "error"]
    [] o # "ok" -> [st EXCEPT !.disabled = FALSE, !.msg = "error"]
    [] st.view = "viewReset" ->
         [st EXCEPT !.succeeded = TRUE, !.timers = @ + 1, !.disabled = FALSE, !.msg = "ok"]
    [] OTHER -> [st EXCEPT !.succeeded = TRUE, !.checks = @ + 1, !.msg = "ok"]

\* viewVerifyEmail after checkSession: the token is taken out of the URL
verifyCheckSessionReturn(st, logged) ==
  LET stripped == [st EXCEPT !.checks = @ - 1, !.disabled = FALSE,
                             !.urlToken = IF st.pc = "shown" THEN FALSE ELSE @] IN
  IF logged
    THEN [stripped EXCEPT !.modal = st.pc = "shown"]
    ELSE [stripped EXCEPT !.timers = @ + 1]

\* viewReset: replaceState('/reset') and navigate('username') after 900 ms;
\* viewVerifyEmail: navigate after 650 ms and a checkSession
tokenTimerFires(st) == [leave(st) EXCEPT !.timers = @ - 1]

(* ---------------------------------------------------------------------- *)
(* Turnstile: turnstileToken, turnstileWidgetId, initTurnstile             *)
(* ---------------------------------------------------------------------- *)
TS_MAX_TRIES == 80

\* turnstileWidgetId is <<>> for null or <<n>> for the n-th widget that
\* window.turnstile.render returned; widgets holds the widgets rendered and
\* not removed; widgetRender is the route render during which the widget of
\* turnstileWidgetId was rendered, renders the number of route renders so
\* far; loaded is window.turnstile; chains is the number of pending
\* setTimeout(initTurnstile, 150); container is .cf-turnstile in the page;
\* waited counts the 150 ms intervals since the page was rendered and inTime
\* tells that window.turnstile was there before TS_MAX_TRIES of them passed
NoTurnstile ==
  [view |-> "none", container |-> FALSE, turnstileToken |-> <<>>,
   turnstileWidgetId |-> <<>>, widgetRender |-> 0, renders |-> 0,
   widgets |-> {}, rendered |-> 0, tsTry |-> 0, chains |-> 0,
   waited |-> 0, inTime |-> FALSE,
   loaded |-> FALSE, justRendered |-> FALSE]

SolvedToken == <<"t", "o", "k", "e", "n">>

\* window.turnstile.remove(turnstileWidgetId); turnstileWidgetId = null
removeWidget(st) ==
  IF st.turnstileWidgetId # <<>>
    THEN [st EXCEPT !.widgets = @ \ {st.turnstileWidgetId[1]}, !.turnstileWidgetId = <<>>]
    ELSE st

\* turnstileWidgetId = window.turnstile.render(el, ...); turnstileToken = ''
renderWidget(st) ==
  [st EXCEPT !.rendered = @ + 1, !.widgets = @ \cup {st.rendered + 1},
             !.turnstileWidgetId = <<st.rendered + 1>>, !.widgetRender = st.renders,
             !.turnstileToken = <<>>]

\* initTurnstile that renders without taking the widget it already has away
initTurnstileKeepsOldWidget(st) ==
  IF ~st.container THEN [st EXCEPT !.tsTry = 0]
  ELSE IF ~st.loaded
    THEN IF st.tsTry + 1 > TS_MAX_TRIES
           THEN [st EXCEPT !.tsTry = @ + 1]
           ELSE [st EXCEPT !.tsTry = @ + 1, !.chains = @ + 1]
  ELSE renderWidget([st EXCEPT !.tsTry = 0])

\* function initTurnstile()
initTurnstile(st) ==
  IF ~st.container THEN [st EXCEPT !.tsTry = 0]
  ELSE IF ~st.loaded
    THEN IF st.tsTry + 1 > TS_MAX_TRIES
           THEN [st EXCEPT !.tsTry = @ + 1]
           ELSE [st EXCEPT !.tsTry = @ + 1, !.chains = @ + 1]
  ELSE renderWidget(removeWidget([st EXCEPT !.tsTry = 0]))

\* the callbacks of the setTimeout(initTurnstile, 150) that are due after one
\* more interval run one after the other
RECURSIVE pollAll(_, _)
pollAll(st, due) ==
  IF due = 0 THEN st
  ELSE pollAll(initTurnstile([st EXCEPT !.chains = @ - 1]), due - 1)

\* the block of a view with a widget that takes the old widget away and
\* forgets to clear the token and to build the new one
viewTurnstileResetOnlyRemoves(st) ==
  IF st.loaded THEN removeWidget(st) ELSE st

\* the block of viewSignup, viewPassword and viewReset:
\* turnstile.remove(turnstileWidgetId); turnstileWidgetId = null;
\* turnstileToken = ''; initTurnstile()
viewTurnstileReset(st) ==
  LET removed == IF st.loaded THEN removeWidget(st) ELSE st IN
  initTurnstile([removed EXCEPT !.turnstileToken = <<>>])

\* app.innerHTML = shell(...): the page of a view, with or without .cf-turnstile
Page(st, v, hasContainer) ==
  [st EXCEPT !.view = v, !.container = hasContainer, !.waited = 0,
             !.inTime = hasContainer /\ st.loaded]

TurnstileRoutes == {R_username, R_password, R_signup, R_reset, R_account_profile, R_verify_email}

\* renderRoute as far as Turnstile goes; login is cyb_login of sessionStorage,
\* token the ?token= of the URL
turnstileRenderRoute(st0, r, login, token) ==
  LET st == [st0 EXCEPT !.renders = @ + 1, !.justRendered = TRUE] IN
  CASE r = R_signup -> viewTurnstileReset(Page(st, "viewSignup", TRUE))
    [] r = R_password ->
         IF login
           THEN viewTurnstileReset(Page(st, "viewPassword", TRUE))
           ELSE \* CybRouter.navigate('username'): a second render inside this one
                Page([st EXCEPT !.renders = @ + 1], "viewUsername", FALSE)
    [] r = R_reset ->
         IF token
           THEN Page(st, "viewReset", FALSE)
           ELSE viewTurnstileReset(Page(st, "viewReset", TRUE))
    [] r = R_account_profile -> Page(st, "viewAccount", FALSE)
    [] r = R_verify_email -> Page(st, "viewVerifyEmail", FALSE)
    [] OTHER -> Page(st, "viewUsername", FALSE)

\* the widget of the page that is shown calls window.onTurnstileOk(token)
onTurnstileOk(st) == [st EXCEPT !.turnstileToken = SolvedToken]

\* window.onTurnstileExpired, window.onTurnstileError
onTurnstileExpired(st) == [st EXCEPT !.turnstileToken = <<>>]

WidgetOfThisView(st) ==
  st.turnstileWidgetId # <<>> /\ st.widgetRender = st.renders

(* ---------------------------------------------------------------------- *)
(* The account page                                                        *)
(* ---------------------------------------------------------------------- *)
\* data-tab of the buttons of .account-nav
AccountTabs == {"profile", "security", "sessions", "easter", "friends", "messages"}

\* const map = { profile: 'account-profile', ... } of the sidebar buttons
TabRoute(t) ==
  CASE t = "profile"  -> R_account_profile
    [] t = "security" -> R_account_security
    [] t = "sessions" -> R_account_sessions
    [] t = "easter"   -> R_account_easter_eggs
    [] t = "friends"  -> R_account_friends
    [] t = "messages" -> R_account_messages

\* what the viewAccount invocation that just got its /auth/me response did
NoStep ==
  [gen |-> 0, tab |-> "", o |-> "none", threw |-> FALSE, rejected |-> FALSE,
   wrote |-> FALSE, navigated |-> FALSE, shown |-> FALSE]

\* the route a click handler of the page passed to CybRouter.navigate and the
\* routes the cyb:route listener then passed to renderRoute
NoClick == [to |-> <<>>, dispatched |-> <<>>]

clicked(st, to, b) == [st EXCEPT !.click = [to |-> to, dispatched |-> b.dispatched]]

\* page is the number of the account page in #app (0: another view is shown),
\* renders the number of account pages built so far, tab the tab of the
\* page, accBody what #accBody holds and writer the page whose invocation
\* wrote it, msg whether #msg of the page shows an error, loads the
\* viewAccount invocations suspended at an await, each with the page it
\* built (gen) and, past /auth/me, the #accBody element it holds (el)
NoAccount ==
  [page |-> 0, renders |-> 0, tab |-> "", accBody |-> "absent", writer |-> 0,
   msg |-> FALSE, loads |-> <<>>, last |-> NoStep, click |-> NoClick]

\* #app after the navigation that produced browser b: viewAccount replaces the
\* page by a new account page with "Загружаю…" in #accBody and suspends at
\* its 200 ms pause, any other view leaves no #accBody
accountRendered(st, b) ==
  IF b.dispatched = <<>> THEN st
  ELSE IF b.view = "viewAccount" /\ b.spawn # <<>>
    THEN [st EXCEPT !.renders = @ + 1, !.page = st.renders + 1,
                    !.tab = b.spawn[Len(b.spawn)].arg,
                    !.accBody = "loading", !.writer = 0, !.msg = FALSE,
                    !.loads = Append(@, [gen |-> st.renders + 1, el |-> 0,
                                         tab |-> b.spawn[Len(b.spawn)].arg,
                                         pc |-> "start"])]
  ELSE [st EXCEPT !.page = 0, !.tab = "", !.accBody = "absent", !.writer = 0,
                  !.msg = FALSE]

\* showMsg of the invocation that built page gen: msgEl is the #msg of that page
showMsgError(st, gen) == [st EXCEPT !.msg = @ \/ gen = st.page]

\* viewAccount whose catch block shows nothing
viewAccountAfterFetchMeSilentCatch(st, ld, o, flags) ==
  LET step == [NoStep EXCEPT !.gen = ld.gen, !.tab = ld.tab, !.o = o] IN
  IF o # "ok" THEN [st EXCEPT !.last = [step EXCEPT !.navigated = TRUE]]
  ELSE IF flags = "number" \/ (ld.tab = "sessions" /\ st.page = 0)
    THEN [st EXCEPT !.last = [step EXCEPT !.threw = TRUE]]
  ELSE IF ld.tab = "sessions"
    THEN [st EXCEPT !.accBody = "sessionsLoading", !.writer = ld.gen,
                    !.loads = Append(@, [ld EXCEPT !.pc = "sessions", !.el = st.page]),
                    !.last = [step EXCEPT !.wrote = TRUE]]
  ELSE IF st.page = 0
    THEN [st EXCEPT !.last = [step EXCEPT !.rejected = TRUE]]
  ELSE [st EXCEPT !.accBody = ld.tab, !.writer = ld.gen,
                  !.last = [step EXCEPT !.wrote = TRUE]]

\* viewAccount that leaves the page alone when it is not the one it built
viewAccountAfterFetchMeOwnPageOnly(st, ld, o, flags) ==
  LET step == [NoStep EXCEPT !.gen = ld.gen, !.tab = ld.tab, !.o = o] IN
  IF o # "ok" THEN [st EXCEPT !.last = [step EXCEPT !.navigated = TRUE]]
  ELSE IF ld.gen # st.page THEN [st EXCEPT !.last = step]
  ELSE [st EXCEPT !.accBody = ld.tab, !.writer = ld.gen,
                  !.last = [step EXCEPT !.wrote = TRUE]]

\* viewAccount from `const { res, data } = await fetchMe()` to its next await
\* or its end; st is the page after the navigation of the non-ok branch.
\* flags is me.user.flags: on a number `flags?.includes('admin')` calls
\* undefined, and with no #accBody `body.innerHTML = ...` of the sessions tab
\* throws too, both inside the try; the same write after the try rejects the
\* promise of viewAccount
viewAccountAfterFetchMe(st, ld, o, flags) ==
  LET step == [NoStep EXCEPT !.gen = ld.gen, !.tab = ld.tab, !.o = o] IN
  IF o # "ok" THEN [st EXCEPT !.last = [step EXCEPT !.navigated = TRUE]]
  ELSE IF flags = "number" \/ (ld.tab = "sessions" /\ st.page = 0)
    THEN [showMsgError(st, ld.gen) EXCEPT
            !.last = [step EXCEPT !.threw = TRUE, !.shown = TRUE]]
  ELSE IF ld.tab = "sessions"
    THEN [st EXCEPT !.accBody = "sessionsLoading", !.writer = ld.gen,
                    !.loads = Append(@, [ld EXCEPT !.pc = "sessions", !.el = st.page]),
                    !.last = [step EXCEPT !.wrote = TRUE]]
  ELSE IF st.page = 0
    THEN [st EXCEPT !.last = [step EXCEPT !.rejected = TRUE]]
  ELSE [st EXCEPT !.accBody = ld.tab, !.writer = ld.gen,
                  !.last = [step EXCEPT !.wrote = TRUE]]

\* the sessions tab after `await apiCall('/auth/sessions')`: body is the
\* element the invocation looked up before the await
viewAccountAfterSessions(st, ld, o) ==
  LET written == IF ld.el = st.page /\ st.page # 0
                   THEN [st EXCEPT !.accBody = "sessions", !.writer = ld.gen]
                   ELSE st IN
  IF o = "ok" THEN written ELSE showMsgError(written, ld.gen)

(* ---------------------------------------------------------------------- *)
(* Forms protected by Turnstile                                            *)
(* ---------------------------------------------------------------------- *)
\* the forms with a .cf-turnstile and the endpoint each one posts the token to
FormViews == {"viewSignup", "viewPassword", "viewReset"}

EP_auth_recovery_start == <<"/", "a", "u", "t", "h", "/", "r", "e", "c", "o", "v", "e", "r", "y", "/", "s", "t", "a", "r", "t">>

FormEndpoint(v) ==
  CASE v = "viewSignup"   -> EP_auth_register
    [] v = "viewPassword" -> EP_auth_login
    [] OTHER              -> EP_auth_recovery_start

\* turnstileToken is <<>> for '' or the token the widget handed to
\* onTurnstileOk; uses counts the requests that carried that token; disabled
\* is the submit button; inflight holds the submit handlers suspended at an
\* await; left tells that the page was navigated away from
NoForm ==
  [view |-> "none", turnstileToken |-> <<>>, uses |-> 0, disabled |-> FALSE,
   inflight |-> <<>>, submits |-> 0, left |-> FALSE]

\* body: JSON.stringify({ ..., turnstileToken }) handed to apiCall
sendToken(st, pc) ==
  [st EXCEPT !.uses = @ + 1, !.inflight = Append(@, [pc |-> pc])]

\* turnstile.reset(turnstileWidgetId); turnstileToken = ''
resetToken(st) == [st EXCEPT !.turnstileToken = <<>>]

\* the submit handler of viewSignup up to `await apiCall('/auth/register')`
signupSubmit(st, valid) ==
  IF ~valid \/ st.turnstileToken = <<>> THEN st
  ELSE sendToken(st, "register")

\* the submit handler of viewPassword up to `await apiCall('/auth/login')`
passwordSubmit(st, valid) ==
  IF ~valid \/ st.turnstileToken = <<>> THEN st
  ELSE sendToken([st EXCEPT !.disabled = TRUE], "login")

\* the submit handler of #fStart up to `await apiCall('/auth/recovery/start')`
fStartSubmit(st, valid) ==
  IF st.disabled THEN st
  ELSE IF ~valid \/ st.turnstileToken = <<>> THEN [st EXCEPT !.disabled = TRUE]
  ELSE sendToken([st EXCEPT !.disabled = TRUE], "start")

formSubmit(st, valid) ==
  LET counted == [st EXCEPT !.submits = @ + 1] IN
  CASE st.view = "viewSignup"   -> signupSubmit(counted, valid)
    [] st.view = "viewPassword" -> passwordSubmit(counted, valid)
    [] OTHER                    -> fStartSubmit(counted, valid)

\* the handler of viewSignup after the response of /auth/register: on
\* success it goes on to `await checkSession()`
signupRegisterReturn(st, o) ==
  IF o # "ok" THEN resetToken(st)
  ELSE [st EXCEPT !.inflight = Append(@, [pc |-> "checkSession"])]

\* the handler of viewSignup after checkSession; the button is disabled and
\* the account page opened 1500 ms later
signupCheckSessionReturn(st, ok) ==
  IF ~ok THEN st ELSE [st EXCEPT !.disabled = TRUE, !.left = TRUE]

\* the handler of viewPassword after the response of /auth/login: every
\* success path navigates (2fa-verify or account-profile)
passwordReturn(st, o) ==
  IF o # "ok" THEN [resetToken(st) EXCEPT !.disabled = FALSE]
  ELSE [st EXCEPT !.disabled = FALSE, !.left = TRUE]

\* the handler of #fStart after the response of /auth/recovery/start
fStartReturn(st, o) == [resetToken(st) EXCEPT !.disabled = FALSE]

\* the handler suspended at inflight[i] resumes; a 401 on an endpoint that
\* apiCall does not exempt has navigated to username before that
formReturn(st0, i, o) ==
  LET ld == st0.inflight[i]
      redirected == Is401Redirect(FormEndpoint(st0.view), StatusOf(o))
      st == [st0 EXCEPT !.inflight = RemoveAt(@, i),
                        !.left = @ \/ (ld.pc # "checkSession" /\ redirected)]
  IN CASE ld.pc = "register"     -> signupRegisterReturn(st, o)
       [] ld.pc = "checkSession" -> signupCheckSessionReturn(st, o = "ok")
       [] ld.pc = "login"        -> passwordReturn(st, o)
       [] OTHER                  -> fStartReturn(st, o)

(* ---------------------------------------------------------------------- *)
(* The network banner                                                      *)
(* ---------------------------------------------------------------------- *)
\* last is the most recent connectivity event, banner what offlineNotification
\* is (none for null, else the class of the element in document.body),
\* timers the pending setTimeout(..., 3000) of the online listener, events
\* the connectivity events so far
NoNet == [last |-> "none", banner |-> "none", timers |-> 0, events |-> 0]

\* window.addEventListener('offline', ...)
onOffline(st) ==
  [st EXCEPT !.last = "offline", !.events = @ + 1,
             !.banner = IF @ = "none" THEN "offline" ELSE @]

\* window.addEventListener('online', ...)
onOnline(st) ==
  IF st.banner # "none"
    THEN [st EXCEPT !.last = "online", !.events = @ + 1, !.banner = "online",
                    !.timers = @ + 1]
    ELSE [st EXCEPT !.last = "online", !.events = @ + 1]

\* the callback of setTimeout(..., 3000)
removeNotification(st) == [st EXCEPT !.timers = @ - 1, !.banner = "none"]

(* ---------------------------------------------------------------------- *)
(* The chat                                                                *)
(* ---------------------------------------------------------------------- *)
Friends == {"A", "B"}

\* page is what the document shows (list: #messagesContent with the chat
\* cards, chat: #messagesContent with a chat, other: no #messagesContent),
\* friend the friend of the chat (none: no chat in the page), el the number of the #chatMessages element of that chat (0: there
\* is none), shown the friend whose messages #chatMessages holds, timers the
\* friendId of each setInterval not cleared, loads the loadChatMessages
\* calls suspended at apiCall, each with the element it looked up, opens the
\* chats opened so far
NoChat ==
  [page |-> "list", friend |-> "none", el |-> 0, shown |-> "none",
   timers |-> <<>>, loads |-> <<>>, opens |-> 0]

\* async function loadChatMessages(friendId) up to its await
loadChatMessages(st, friendId) ==
  IF st.el = 0 THEN st
  ELSE [st EXCEPT !.loads = Append(@, [friendId |-> friendId, el |-> st.el])]

\* loadChatMessages after `await apiCall(...)`: messagesContainer is the
\* element found before the await, in the page or detached
loadChatMessagesReturn(st0, i, ok) ==
  LET ld == st0.loads[i]
      st == [st0 EXCEPT !.loads = RemoveAt(@, i)] IN
  IF ok /\ ld.el = st.el THEN [st EXCEPT !.shown = ld.friendId] ELSE st

\* function openChat(friendId, friendUsername)
openChat(st, friendId) ==
  LET ui == [st EXCEPT !.page = "chat", !.friend = friendId, !.el = st.opens + 1,
                       !.shown = "none", !.opens = @ + 1] IN
  IF st.page = "other" THEN st
  ELSE [loadChatMessages(ui, friendId) EXCEPT !.timers = Append(@, friendId)]

\* the callback of the setInterval at position i
updateIntervalFires(st, i) ==
  IF st.el = 0 THEN [st EXCEPT !.timers = RemoveAt(@, i)]
  ELSE loadChatMessages(st, st.timers[i])

\* async function loadMessagesTab(api), the chat's close button: the list of
\* chat cards replaces what #messagesContent holds
loadMessagesTab(st) ==
  IF st.page = "other" THEN st
  ELSE [st EXCEPT !.page = "list", !.friend = "none", !.el = 0, !.shown = "none"]

\* another tab or view replaces the messages tab
chatRemoved(st) ==
  [st EXCEPT !.page = "other", !.friend = "none", !.el = 0, !.shown = "none"]

(* ---------------------------------------------------------------------- *)
(* Router operations                                                       *)
(* ---------------------------------------------------------------------- *)
PathAlphabet == {Slash, "a"}

KnownTokens == routes \cup {R_account_friends, R_edit_profile, U_alice}

InitPaths ==
  { p \in UNION { [1..n -> PathAlphabet] : n \in 1..MaxPathLen } : p[1] = Slash }
  \cup { <<Slash>> \o t : t \in KnownTokens }
  \cup { <<Slash, Slash>> \o t \o <<Slash, Slash>> : t \in KnownTokens }
  \cup { <<Slash>> \o t \o <<Slash, "a">> : t \in {R_signup, U_alice} }

NavTargets ==
  { R_username, R_password, R_2fa_verify, R_account_profile, U_alice }

ParamNames == {"username", "token"}

Op(op, path, name, route, param, b) ==
  [op |-> op, path |-> path, name |-> name, route |-> route, param |-> param,
   pushed |-> b.pushed, dispatched |-> b.dispatched]

NoTrace == [pushed |-> <<>>, dispatched |-> <<>>]

\* State once the router script has run: its first render() dispatched a
\* cyb:route event before login.js registered its listener.
InitRouter ==
  /\ routerRev \in RouterRevs
  /\ \E p \in InitPaths : hist = <<p>>
  /\ histIdx = 1
  /\ cybLogin \in BOOLEAN
  /\ twoFAUserId \in BOOLEAN
  /\ view = "none"
  /\ lastOp = Op("firstRender", hist[1], "", CybRouterGetRoute(hist[1]), NullParam,
                 [pushed |-> <<>>, dispatched |-> <<CybRouterGetRoute(hist[1])>>])
  /\ online = TRUE
  /\ calls = [id \in CallIds |-> FreeCall]
  /\ tasks = <<>>
  /\ strawberry = FALSE
  /\ urlToken = FALSE
  /\ autoNavs = 0
  /\ hasPKC = TRUE
  /\ passkey = NoFlow
  /\ shownMsgs = {}
  /\ codec = NoCodec
  /\ reporter = NoReporter
  /\ eggs = NoEaster
  /\ tokenPage = NoTokenPage
  /\ turnstile = NoTurnstile
  /\ account = NoAccount
  /\ form = NoForm
  /\ net = NoNet
  /\ chat = NoChat

CommitRouter(b, op) ==
  /\ hist' = b.hist
  /\ histIdx' = b.idx
  /\ view' = b.view
  /\ lastOp' = op
  /\ UNCHANGED <<routerRev, cybLogin, twoFAUserId, apiVars, navVars, passkeyVars, auxVars, uiVars>>

\* CybRouter.navigate(to), called by a click handler of the page
UserNavigate ==
  \E to \in NavTargets :
    /\ histIdx + 2 <= MaxHist
    /\ LET b == navigate(Browser, to) IN
       CommitRouter(b, Op("navigate", UrlPath(to), "", CybRouterGetRoute(UrlPath(to)),
                          NullParam, b))

\* browser back / forward: the current entry changes, then popstate fires
Popstate ==
  \E i \in 1..Len(hist) :
    /\ i # histIdx
    /\ i + 1 <= MaxHist
    /\ LET b == render([Browser EXCEPT !.idx = i]) IN
       CommitRouter(b, Op("popstate", hist[i], "", CybRouterGetRoute(hist[i]),
                          NullParam, b))

CallGetRoute ==
  /\ lastOp' = Op("getRoute", Pathname, "", CybRouterGetRoute(Pathname), NullParam, NoTrace)
  /\ UNCHANGED <<routerRev, hist, histIdx, cybLogin, twoFAUserId, view, apiVars, navVars, passkeyVars, auxVars, uiVars>>

CallGetRouteParam ==
  \E name \in ParamNames :
    /\ HasGetRouteParam
    /\ lastOp' = Op("getRouteParam", Pathname, name, <<>>,
                    CybRouterGetRouteParam(Pathname, name), NoTrace)
    /\ UNCHANGED <<routerRev, hist, histIdx, cybLogin, twoFAUserId, view, apiVars, navVars, passkeyVars, auxVars, uiVars>>

NextRouter == UserNavigate \/ Popstate \/ CallGetRoute \/ CallGetRouteParam

(* ---------------------------------------------------------------------- *)
(* apiCall invocations                                                     *)
(* ---------------------------------------------------------------------- *)
InitApi ==
  /\ routerRev = "part_000"
  /\ hist = << <<Slash>> \o R_account_security >>
  /\ histIdx = 1
  /\ cybLogin = FALSE
  /\ twoFAUserId = FALSE
  /\ view = "viewAccount"
  /\ lastOp = Op("firstRender", hist[1], "", CybRouterGetRoute(hist[1]), NullParam,
                 [pushed |-> <<>>, dispatched |-> <<CybRouterGetRoute(hist[1])>>])
  /\ online \in BOOLEAN
  /\ calls = [id \in CallIds |-> FreeCall]
  /\ tasks = <<>>
  /\ strawberry = FALSE
  /\ urlToken = FALSE
  /\ autoNavs = 0
  /\ hasPKC = TRUE
  /\ passkey = NoFlow
  /\ shownMsgs = {}
  /\ codec = NoCodec
  /\ reporter = NoReporter
  /\ eggs = NoEaster
  /\ tokenPage = NoTokenPage
  /\ turnstile = NoTurnstile
  /\ account = NoAccount
  /\ form = NoForm
  /\ net = NoNet
  /\ chat = NoChat

ApiCallStart ==
  \E id \in CallIds, endpoint \in Endpoints, hang \in BOOLEAN :
    /\ calls[id].pc = "free"
    /\ online \/ ~hang
    /\ calls' = [calls EXCEPT ![id] = apiCallBegin(endpoint, DefaultTimeoutMs, online, hang)]
    /\ UNCHANGED <<routerVars, online, navVars, passkeyVars, auxVars, uiVars>>

\* fetch resolves: clearTimeout (the timer and its clock are discarded), the
\* 401 rule, return response
FetchResolve ==
  \E id \in CallIds, status \in Statuses :
    /\ calls[id].pc = "fetching"
    /\ ~calls[id].hang
    /\ LET redirect == Is401Redirect(calls[id].endpoint, status)
           b == IF redirect THEN navigate(Browser, R_username) ELSE Browser
       IN /\ calls' = [calls EXCEPT ![id].pc = "returned",
                                    ![id].fetch = "fulfilled",
                                    ![id].timer = "cleared",
                                    ![id].remaining = 0,
                                    ![id].elapsed = 0,
                                    ![id].navigated = redirect,
                                    ![id].result = Response(status)]
          /\ hist' = b.hist
          /\ histIdx' = b.idx
          /\ view' = b.view
          /\ lastOp' = IF redirect
                         THEN Op("navigate", UrlPath(R_username), "",
                                 CybRouterGetRoute(UrlPath(R_username)), NullParam, b)
                         ELSE lastOp
    /\ UNCHANGED <<routerRev, cybLogin, twoFAUserId, online, navVars, passkeyVars, auxVars, uiVars>>

\* fetch rejects with a network error: clearTimeout, catch block
FetchReject ==
  \E id \in CallIds, error \in FetchErrors :
    /\ calls[id].pc = "fetching"
    /\ ~calls[id].hang
    /\ calls' = [calls EXCEPT ![id] = CatchBlock([@ EXCEPT !.timer = "cleared", !.remaining = 0,
                                              !.elapsed = 0, !.fetch = "rejected"],
                                  error)]
    /\ UNCHANGED <<routerVars, online, navVars, passkeyVars, auxVars, uiVars>>

\* the setTimeout callback: controller.abort(); the pending fetch rejects
\* with AbortError and the catch block runs
TimerFire ==
  \E id \in CallIds :
    /\ calls[id].timer = "armed"
    /\ calls[id].remaining = 0
    /\ calls' = [calls EXCEPT ![id] =
                   IF @.pc = "fetching"
                     THEN CatchBlock([@ EXCEPT !.timer = "fired", !.aborted = TRUE,
                                                !.fetch = "rejected"],
                                     AbortError)
                     ELSE [@ EXCEPT !.timer = "fired", !.aborted = TRUE]]
    /\ UNCHANGED <<routerVars, online, navVars, passkeyVars, auxVars, uiVars>>

\* time passes by one tick; a due timer callback runs before more time passes
Tick ==
  /\ \E id \in CallIds : calls[id].timer = "armed"
  /\ \A id \in CallIds : calls[id].timer = "armed" => calls[id].remaining > 0
  /\ calls' = [id \in CallIds |->
                 IF calls[id].timer = "armed"
                   THEN [calls[id] EXCEPT !.remaining = @ - 1, !.elapsed = @ + 1]
                   ELSE calls[id]]
  /\ UNCHANGED <<routerVars, online, navVars, passkeyVars, auxVars, uiVars>>

\* the caller has consumed the value apiCall resolved with
ReleaseCall ==
  \E id \in CallIds :
    /\ calls[id].pc = "returned"
    /\ calls' = [calls EXCEPT ![id] = FreeCall]
    /\ UNCHANGED <<routerVars, online, navVars, passkeyVars, auxVars, uiVars>>

\* the browser's online / offline events
ConnectivityChange ==
  /\ online' = ~online
  /\ UNCHANGED <<routerVars, calls, navVars, passkeyVars, auxVars, uiVars>>

NextApi ==
  \/ ApiCallStart \/ FetchResolve \/ FetchReject \/ TimerFire \/ Tick
  \/ ReleaseCall \/ ConnectivityChange


(* ---------------------------------------------------------------------- *)
(* Navigation without a user gesture: boot and the continuations of the    *)
(* async views, each resumed when the apiCall, fetch or timer it awaits    *)
(* settles                                                                 *)
(* ---------------------------------------------------------------------- *)
P_account == <<"a", "c", "c", "o", "u", "n", "t", "-">>

allowedWhenLoggedIn ==
  { R_profile, R_strawberry_history, R_verify_email, R_2fa_verify }

\* boot that takes a logged-in visitor away from public profiles too
bootAfterCheckSessionGatesProfile(b, r, ok) ==
  IF ok /\ ~StartsWith(r, P_account) /\ r \notin (allowedWhenLoggedIn \ {R_profile})
    THEN navigate(b, R_account_profile)
    ELSE renderRoute(b, r)

\* boot after `await checkSession()`
bootAfterCheckSession(b, r, ok) ==
  IF ok /\ ~StartsWith(r, P_account) /\ r \notin allowedWhenLoggedIn
    THEN navigate(b, R_account_profile)
    ELSE renderRoute(b, r)

\* viewAccount that sends an unauthenticated visitor to the account page
viewAccountNotAuthenticatedRetry(b) == navigate(b, R_account_profile)

\* viewAccount when fetchMe did not return an authenticated user
viewAccountNotAuthenticated(b) == navigate(b, R_username)

\* the requests the rendered tab issues on its own
TabLoads(b, tab) ==
  CASE tab = "sessions" -> <<[kind |-> "viewAccount", arg |-> tab, pc |-> "sessions"]>>
    [] tab = "security" -> <<Task("load2FAStatus", ""), Task("loadPasskeys", "")>>
    [] tab = "friends"  ->
         IF b.view = "viewAccount" THEN <<Task("loadFriendsTab", "")>> ELSE <<>>
    [] tab = "messages" ->
         IF b.view = "viewAccount" THEN <<Task("loadMessagesTab", "")>> ELSE <<>>
    [] OTHER -> <<>>

\* the endpoint a tab loader is waiting for
TabEndpoint(t) ==
  CASE t.kind = "viewAccount"     -> EP_auth_sessions
    [] t.kind = "load2FAStatus"   -> EP_auth_me
    [] t.kind = "loadPasskeys"    -> EP_auth_passkey_list
    [] t.kind = "loadMessagesTab" -> EP_api_friends_list
    [] t.kind = "loadFriendsTab"  ->
         CASE t.pc = "start"   -> EP_api_friends_list
           [] t.pc = "pending" -> EP_api_friends_pending
           [] OTHER            -> EP_api_friends_sent

\* loadFriendsTab awaits three requests in a row; res.json() throwing ends it
TabNext(t, json) ==
  IF t.kind = "loadFriendsTab" /\ json /\ t.pc # "sent"
    THEN <<[t EXCEPT !.pc = IF t.pc = "start" THEN "pending" ELSE "sent"]>>
    ELSE <<>>

\* history.replaceState(null, '', path)
replaceState(b, path) == [b EXCEPT !.hist[b.idx] = path]

BootPaths ==
  {<<Slash>>} \cup { UrlPath(t) : t \in KnownTokens \cup {R_account_messages} }

\* State when login.js starts: the router script has run and boot is
\* suspended at `await checkSession()` with r already read.
InitNav ==
  /\ routerRev \in RouterRevs
  /\ \E p \in BootPaths : hist = <<p>>
  /\ histIdx = 1
  /\ cybLogin \in BOOLEAN
  /\ twoFAUserId \in BOOLEAN
  /\ view = "none"
  /\ lastOp = Op("firstRender", hist[1], "", CybRouterGetRoute(hist[1]), NullParam,
                 [pushed |-> <<>>, dispatched |-> <<CybRouterGetRoute(hist[1])>>])
  /\ online = TRUE
  /\ calls = [id \in CallIds |-> FreeCall]
  /\ tasks = <<[kind |-> "boot", arg |-> CybRouterGetRoute(hist[1]), pc |-> "checkSession"]>>
  /\ strawberry \in BOOLEAN
  /\ urlToken \in BOOLEAN
  /\ autoNavs = 0
  /\ hasPKC = TRUE
  /\ passkey = NoFlow
  /\ shownMsgs = {}
  /\ codec = NoCodec
  /\ reporter = NoReporter
  /\ eggs = NoEaster
  /\ tokenPage = NoTokenPage
  /\ turnstile = NoTurnstile
  /\ account = NoAccount
  /\ form = NoForm
  /\ net = NoNet
  /\ chat = NoChat

\* task i has run to its next await (next) or to its end, leaving browser b
CommitNav(i, b, next, sb, ut) ==
  /\ autoNavs + Len(b.pushed) <= NavCap
  /\ tasks' = RemoveAt(tasks, i) \o next \o b.spawn
  /\ hist' = b.hist
  /\ histIdx' = b.idx
  /\ view' = b.view
  /\ strawberry' = sb
  /\ urlToken' = IF b.pushed # <<>> THEN FALSE ELSE ut
  /\ autoNavs' = autoNavs + Len(b.pushed)
  /\ UNCHANGED <<routerRev, cybLogin, twoFAUserId, lastOp, apiVars, passkeyVars, auxVars, uiVars>>

BootCheckSessionReturn ==
  \E i \in DOMAIN tasks, o \in Outcomes :
    /\ tasks[i].kind = "boot"
    /\ CommitNav(i, bootAfterCheckSession(apiCallReturn(Browser, EP_auth_me, o),
                                          tasks[i].arg, o = "ok"),
                 <<>>, strawberry, urlToken)

\* the 200 ms pause of viewAccount ends and fetchMe is issued
ViewAccountDelay ==
  \E i \in DOMAIN tasks :
    /\ tasks[i].kind = "viewAccount"
    /\ tasks[i].pc = "start"
    /\ tasks' = [tasks EXCEPT ![i].pc = "fetchMe"]
    /\ UNCHANGED <<routerVars, apiVars, strawberry, urlToken, autoNavs, passkeyVars, auxVars, uiVars>>

ViewAccountFetchMeReturn ==
  \E i \in DOMAIN tasks, o \in Outcomes, easter \in BOOLEAN :
    /\ tasks[i].kind = "viewAccount"
    /\ tasks[i].pc = "fetchMe"
    /\ easter => o = "ok"
    /\ LET b == apiCallReturn(Browser, EP_auth_me, o) IN
       IF o # "ok"
         THEN CommitNav(i, viewAccountNotAuthenticated(b), <<>>, strawberry, urlToken)
         ELSE CommitNav(i, b, TabLoads(b, tasks[i].arg), strawberry \/ easter, urlToken)

\* /auth/sessions, load2FAStatus, loadPasskeys, loadFriendsTab, loadMessagesTab
TabRequestReturn ==
  \E i \in DOMAIN tasks, o \in Outcomes, json \in BOOLEAN :
    /\ \/ tasks[i].kind = "viewAccount" /\ tasks[i].pc = "sessions"
       \/ tasks[i].kind \in {"load2FAStatus", "loadPasskeys", "loadFriendsTab",
                             "loadMessagesTab"}
    /\ tasks[i].kind # "loadFriendsTab" => json
    /\ CommitNav(i, apiCallReturn(Browser, TabEndpoint(tasks[i]), o),
                 TabNext(tasks[i], json), strawberry, urlToken)

StrawberryHistoryFetchMeReturn ==
  \E i \in DOMAIN tasks, o \in Outcomes, easter \in BOOLEAN :
    /\ tasks[i].kind = "viewStrawberryHistory"
    /\ easter => o = "ok"
    /\ LET b == apiCallReturn(Browser, EP_auth_me, o) IN
       IF o = "ok" /\ easter
         THEN CommitNav(i, Show(b, "viewStrawberryHistory"), <<>>, TRUE, urlToken)
         ELSE CommitNav(i, navigate(b, R_account_easter_eggs), <<>>, strawberry, urlToken)

ViewDoneLogoutReturn ==
  \E i \in DOMAIN tasks, o \in Outcomes :
    /\ tasks[i].kind = "viewDone"
    /\ CommitNav(i, apiCallReturn(Browser, EP_auth_logout, o), <<>>, strawberry, urlToken)

\* the verify request of the automatic click answers
VerifyEmailReturn ==
  \E i \in DOMAIN tasks, o \in Outcomes :
    /\ tasks[i].kind = "viewVerifyEmail"
    /\ tasks[i].pc = "start"
    /\ CommitNav(i, apiCallReturn(Browser, EP_auth_email_verify, o),
                 IF o \in {"ok", "notok"}
                   THEN <<[tasks[i] EXCEPT !.pc = "checkSession"]>> ELSE <<>>,
                 strawberry, urlToken)

\* checkSession after a successful verification; the token leaves the URL
VerifyEmailCheckSessionReturn ==
  \E i \in DOMAIN tasks, o \in Outcomes :
    /\ tasks[i].kind = "viewVerifyEmail"
    /\ tasks[i].pc = "checkSession"
    /\ CommitNav(i, replaceState(apiCallReturn(Browser, EP_auth_me, o),
                                 UrlPath(R_verify_email)),
                 IF o = "ok" THEN <<>> ELSE <<[tasks[i] EXCEPT !.pc = "timer"]>>,
                 strawberry, FALSE)

\* the 650 ms timer fires and calls checkSession again
VerifyEmailTimer ==
  \E i \in DOMAIN tasks :
    /\ tasks[i].kind = "viewVerifyEmail"
    /\ tasks[i].pc = "timer"
    /\ tasks' = [tasks EXCEPT ![i].pc = "recheck"]
    /\ UNCHANGED <<routerVars, apiVars, strawberry, urlToken, autoNavs, passkeyVars, auxVars, uiVars>>

VerifyEmailRedirect ==
  \E i \in DOMAIN tasks, o \in Outcomes :
    /\ tasks[i].kind = "viewVerifyEmail"
    /\ tasks[i].pc = "recheck"
    /\ LET b == apiCallReturn(Browser, EP_auth_me, o) IN
       CommitNav(i, navigate(b, IF o = "ok" THEN R_account_security ELSE R_username),
                 <<>>, strawberry, urlToken)

\* viewEditProfile and profileModule.renderProfile use fetch directly and
\* render what they get
RawFetchSettle ==
  \E i \in DOMAIN tasks :
    /\ tasks[i].kind \in {"viewEditProfile", "renderProfile"}
    /\ CommitNav(i, Browser, <<>>, strawberry, urlToken)

NextNav ==
  \/ BootCheckSessionReturn \/ ViewAccountDelay \/ ViewAccountFetchMeReturn
  \/ TabRequestReturn \/ StrawberryHistoryFetchMeReturn \/ ViewDoneLogoutReturn
  \/ VerifyEmailReturn \/ VerifyEmailCheckSessionReturn \/ VerifyEmailTimer
  \/ VerifyEmailRedirect \/ RawFetchSettle

(* ---------------------------------------------------------------------- *)
(* Passkey flows                                                           *)
(* ---------------------------------------------------------------------- *)
\* the login view, or the security tab of the account view, is on screen
InitPasskey ==
  /\ routerRev \in RouterRevs
  /\ \E r \in {R_username, R_account_security} :
       /\ hist = <<UrlPath(r)>>
       /\ view = IF r = R_username THEN "viewUsername" ELSE "viewAccount"
  /\ histIdx = 1
  /\ cybLogin = FALSE
  /\ twoFAUserId = FALSE
  /\ lastOp = Op("firstRender", hist[1], "", CybRouterGetRoute(hist[1]), NullParam,
                 [pushed |-> <<>>, dispatched |-> <<CybRouterGetRoute(hist[1])>>])
  /\ online = TRUE
  /\ calls = [id \in CallIds |-> FreeCall]
  /\ tasks = <<>>
  /\ strawberry = FALSE
  /\ urlToken = FALSE
  /\ autoNavs = 0
  /\ hasPKC \in BOOLEAN
  /\ passkey = NoFlow
  /\ shownMsgs = {}
  /\ codec = NoCodec
  /\ reporter = NoReporter
  /\ eggs = NoEaster
  /\ tokenPage = NoTokenPage
  /\ turnstile = NoTurnstile
  /\ account = NoAccount
  /\ form = NoForm
  /\ net = NoNet
  /\ chat = NoChat

CommitPasskey(b, f) ==
  /\ passkey' = f
  /\ shownMsgs' = IF f.failure \in FailureKinds
                    THEN shownMsgs \cup {[flow |-> f.flow, failure |-> f.failure,
                                         text |-> f.msg.text]}
                    ELSE shownMsgs
  /\ hist' = b.hist
  /\ histIdx' = b.idx
  /\ view' = b.view
  /\ UNCHANGED <<routerRev, cybLogin, twoFAUserId, lastOp, apiVars, navVars, hasPKC, auxVars, uiVars>>

\* click on "Войти с помощью ключа доступа"
KeyLoginClick ==
  /\ passkey.flow = "none"
  /\ view = "viewUsername"
  /\ CommitPasskey(Browser, keyLoginClick(hasPKC))

\* click on the add-passkey button of the security tab
RegisterPasskeyClick ==
  /\ passkey.flow = "none"
  /\ view = "viewAccount"
  /\ Pathname = UrlPath(R_account_security)
  /\ CommitPasskey(Browser, registerPasskey(hasPKC))

PasskeyOptionsReturn ==
  \E res \in OptionsResponses :
    /\ passkey.pc = "options"
    /\ CommitPasskey(apiCallReturn(Browser, passkey.requests[Len(passkey.requests)], res.o),
                     passkeyAfterOptions(passkey, res))

PasskeyCeremonyReturn ==
  \E r \in CeremonyResults :
    /\ passkey.pc = "ceremony"
    /\ CommitPasskey(Browser, passkeyAfterCeremony(passkey, r))

PasskeyFinishReturn ==
  \E o \in Outcomes :
    /\ passkey.pc = "finish"
    /\ LET b == apiCallReturn(Browser, passkey.requests[Len(passkey.requests)], o)
           f == passkeyAfterFinish(passkey, o)
       IN CommitPasskey(IF f.navigated THEN navigate(b, R_account_profile) ELSE b,
                        f)

\* loadPasskeys() after a successful registration
PasskeyListReturn ==
  \E o \in Outcomes :
    /\ passkey.pc = "reload"
    /\ CommitPasskey(apiCallReturn(Browser, EP_auth_passkey_list, o),
                     [passkey EXCEPT !.pc = "done"])

\* the handler has returned and the message has been read
PasskeyFlowEnds ==
  /\ passkey.pc = "done"
  /\ CommitPasskey(Browser, NoFlow)

NextPasskey ==
  \/ KeyLoginClick \/ RegisterPasskeyClick \/ PasskeyOptionsReturn
  \/ PasskeyCeremonyReturn \/ PasskeyFinishReturn \/ PasskeyListReturn
  \/ PasskeyFlowEnds

(* ---------------------------------------------------------------------- *)
(* A buffer taken through encode and decode                                *)
(* ---------------------------------------------------------------------- *)
ByteSamples == {0, 1, 65, 251, 255}

Buffers == UNION { [1..n -> ByteSamples] : n \in 0..MaxBufLen }

InitCodec ==
  /\ routerRev = "part_000"
  /\ hist = <<UrlPath(R_username)>>
  /\ histIdx = 1
  /\ cybLogin = FALSE
  /\ twoFAUserId = FALSE
  /\ view = "viewUsername"
  /\ lastOp = Op("firstRender", hist[1], "", CybRouterGetRoute(hist[1]), NullParam,
                 [pushed |-> <<>>, dispatched |-> <<CybRouterGetRoute(hist[1])>>])
  /\ online = TRUE
  /\ calls = [id \in CallIds |-> FreeCall]
  /\ tasks = <<>>
  /\ strawberry = FALSE
  /\ urlToken = FALSE
  /\ autoNavs = 0
  /\ hasPKC = TRUE
  /\ passkey = NoFlow
  /\ shownMsgs = {}
  /\ \E B \in Buffers : codec = [NoCodec EXCEPT !.pc = "buffer", !.buf = B]
  /\ reporter = NoReporter
  /\ eggs = NoEaster
  /\ tokenPage = NoTokenPage
  /\ turnstile = NoTurnstile
  /\ account = NoAccount
  /\ form = NoForm
  /\ net = NoNet
  /\ chat = NoChat

\* credentialData: a field of the credential is encoded for the POST body
CodecEncode ==
  /\ codec.pc = "buffer"
  /\ codec' = [codec EXCEPT !.pc = "encoded", !.encoded = base64urlEncode(codec.buf)]
  /\ UNCHANGED <<routerVars, apiVars, navVars, passkeyVars, reporter, eggs, tokenPage, turnstile, uiVars>>

\* the same value comes back from the server, without or with '=' padding,
\* and is decoded as options.challenge and the credential ids are
CodecDecode ==
  /\ codec.pc = "encoded"
  /\ codec' = [codec EXCEPT !.pc = "decoded",
                            !.decoded = base64urlDecode(codec.encoded),
                            !.decodedPadded = base64urlDecode(base64urlPadded(codec.buf))]
  /\ UNCHANGED <<routerVars, apiVars, navVars, passkeyVars, reporter, eggs, tokenPage, turnstile, uiVars>>

NextCodec == CodecEncode \/ CodecDecode

(* ---------------------------------------------------------------------- *)
(* Errors and rejections arriving over time                                *)
(* ---------------------------------------------------------------------- *)
InitReporter ==
  /\ routerRev = "part_000"
  /\ hist = <<UrlPath(R_username)>>
  /\ histIdx = 1
  /\ cybLogin = FALSE
  /\ twoFAUserId = FALSE
  /\ view = "viewUsername"
  /\ lastOp = Op("firstRender", hist[1], "", CybRouterGetRoute(hist[1]), NullParam,
                 [pushed |-> <<>>, dispatched |-> <<CybRouterGetRoute(hist[1])>>])
  /\ online = TRUE
  /\ calls = [id \in CallIds |-> FreeCall]
  /\ tasks = <<>>
  /\ strawberry = FALSE
  /\ urlToken = FALSE
  /\ autoNavs = 0
  /\ hasPKC = TRUE
  /\ passkey = NoFlow
  /\ shownMsgs = {}
  /\ codec = NoCodec
  /\ reporter = NoReporter
  /\ eggs = NoEaster
  /\ tokenPage = NoTokenPage
  /\ turnstile = NoTurnstile
  /\ account = NoAccount
  /\ form = NoForm
  /\ net = NoNet
  /\ chat = NoChat

SyncError ==
  /\ reporter.errorCount < MaxErrorCount
  /\ \E key \in { syncErrorKey(e) : e \in SyncErrors } \cup {FreshKey} :
       reporter' = onerror(reporter, key)
  /\ UNCHANGED <<routerVars, apiVars, navVars, passkeyVars, codec, eggs, tokenPage, turnstile, uiVars>>

UnhandledRejection ==
  /\ reporter.errorCount < MaxErrorCount
  /\ \E key \in { promiseErrorKey(e) : e \in RejectionReasons } :
       reporter' = onunhandledrejection(reporter, key)
  /\ UNCHANGED <<routerVars, apiVars, navVars, passkeyVars, codec, eggs, tokenPage, turnstile, uiVars>>

ReporterTick ==
  /\ reporter' = [timersAdvance(reporter) EXCEPT !.handled = NoHandled]
  /\ UNCHANGED <<routerVars, apiVars, navVars, passkeyVars, codec, eggs, tokenPage, turnstile, uiVars>>

NextReporter == SyncError \/ UnhandledRejection \/ ReporterTick

(* ---------------------------------------------------------------------- *)
(* Logging in with flags set locally or on the server                      *)
(* ---------------------------------------------------------------------- *)
InitEaster ==
  /\ routerRev = "part_000"
  /\ hist = <<UrlPath(R_username)>>
  /\ histIdx = 1
  /\ cybLogin = FALSE
  /\ twoFAUserId = FALSE
  /\ view = "viewUsername"
  /\ lastOp = Op("firstRender", hist[1], "", CybRouterGetRoute(hist[1]), NullParam,
                 [pushed |-> <<>>, dispatched |-> <<CybRouterGetRoute(hist[1])>>])
  /\ online = TRUE
  /\ calls = [id \in CallIds |-> FreeCall]
  /\ tasks = <<>>
  /\ strawberry = FALSE
  /\ urlToken = FALSE
  /\ autoNavs = 0
  /\ hasPKC = TRUE
  /\ passkey = NoFlow
  /\ shownMsgs = {}
  /\ codec = NoCodec
  /\ reporter = NoReporter
  /\ \E l, s \in [EasterFlags -> BOOLEAN] :
       eggs = [NoEaster EXCEPT !.pc = "login", !.local = l, !.server = s]
  /\ tokenPage = NoTokenPage
  /\ turnstile = NoTurnstile
  /\ account = NoAccount
  /\ form = NoForm
  /\ net = NoNet
  /\ chat = NoChat

SyncOutcomes == {"ok", "notok"}

PasswordLoginSuccess ==
  /\ eggs.pc = "login"
  /\ \E o1, o2 \in SyncOutcomes :
       eggs' = [passwordLoginSync(fresh(eggs), [ok |-> TRUE, easter |-> eggs.server], o1, o2)
                    EXCEPT !.pc = "navigated", !.path = "password"]
  /\ UNCHANGED <<routerVars, apiVars, navVars, passkeyVars, codec, reporter, tokenPage, turnstile, uiVars>>

TwoFAVerifySuccess ==
  /\ eggs.pc = "login"
  /\ \E me1, me2 \in UserResponses(eggs), o1, o2 \in SyncOutcomes :
       eggs' = [meSync(fresh(eggs), me1, o1, me2, o2) EXCEPT !.pc = "navigated", !.path = "2fa"]
  /\ UNCHANGED <<routerVars, apiVars, navVars, passkeyVars, codec, reporter, tokenPage, turnstile, uiVars>>

SignupSuccess ==
  /\ eggs.pc = "login"
  /\ \E me1, me2 \in UserResponses(eggs), o1, o2 \in SyncOutcomes :
       eggs' = [meSync(fresh(eggs), me1, o1, me2, o2) EXCEPT !.pc = "navigated", !.path = "signup"]
  /\ UNCHANGED <<routerVars, apiVars, navVars, passkeyVars, codec, reporter, tokenPage, turnstile, uiVars>>

\* the passkey handler reads nothing from the login response and navigates
PasskeyLoginSuccess ==
  /\ eggs.pc = "login"
  /\ eggs' = [fresh(eggs) EXCEPT !.pc = "navigated", !.path = "passkey"]
  /\ UNCHANGED <<routerVars, apiVars, navVars, passkeyVars, codec, reporter, tokenPage, turnstile, uiVars>>

\* the account view that the login navigated to, or a boot with a session
ViewAccountLoad ==
  /\ eggs.pc \in {"login", "navigated"}
  /\ \E me \in UserResponses(eggs) :
       eggs' = IF eggs.pc = "login"
                 THEN [viewAccountLoadMe(fresh(eggs), me) EXCEPT !.path = "boot"]
                 ELSE viewAccountLoadMe(eggs, me)
  /\ UNCHANGED <<routerVars, apiVars, navVars, passkeyVars, codec, reporter, tokenPage, turnstile, uiVars>>

\* the strawberry is found in the page: setStrawberryAccess()
FlagFoundLocally ==
  /\ eggs.pc \in {"login", "account"}
  /\ \E f \in EasterFlags :
       /\ ~eggs.local[f]
       /\ eggs' = [eggs EXCEPT !.local[f] = TRUE]
  /\ UNCHANGED <<routerVars, apiVars, navVars, passkeyVars, codec, reporter, tokenPage, turnstile, uiVars>>

NextEaster ==
  \/ PasswordLoginSuccess
  \/ TwoFAVerifySuccess
  \/ SignupSuccess
  \/ PasskeyLoginSuccess
  \/ ViewAccountLoad
  \/ FlagFoundLocally

(* ---------------------------------------------------------------------- *)
(* A visit of a token page                                                 *)
(* ---------------------------------------------------------------------- *)
InitToken ==
  /\ routerRev = "part_000"
  /\ hist = <<UrlPath(R_username)>>
  /\ histIdx = 1
  /\ cybLogin = FALSE
  /\ twoFAUserId = FALSE
  /\ view = "viewUsername"
  /\ lastOp = Op("firstRender", hist[1], "", CybRouterGetRoute(hist[1]), NullParam,
                 [pushed |-> <<>>, dispatched |-> <<CybRouterGetRoute(hist[1])>>])
  /\ online = TRUE
  /\ calls = [id \in CallIds |-> FreeCall]
  /\ tasks = <<>>
  /\ strawberry = FALSE
  /\ urlToken = FALSE
  /\ autoNavs = 0
  /\ hasPKC = TRUE
  /\ passkey = NoFlow
  /\ shownMsgs = {}
  /\ codec = NoCodec
  /\ reporter = NoReporter
  /\ eggs = NoEaster
  /\ \E v \in TokenViews, t \in BOOLEAN :
       tokenPage = [NoTokenPage EXCEPT !.view = v, !.pc = "url", !.urlToken = t]
  /\ turnstile = NoTurnstile
  /\ account = NoAccount
  /\ form = NoForm
  /\ net = NoNet
  /\ chat = NoChat

TokenViewRender ==
  /\ tokenPage.pc = "url"
  /\ tokenPage' = IF tokenPage.view = "viewVerifyEmail"
                    THEN viewVerifyEmailRender(tokenPage)
                    ELSE viewResetRender(tokenPage)
  /\ UNCHANGED <<routerVars, apiVars, navVars, passkeyVars, codec, reporter, eggs, turnstile, uiVars>>

\* a click on a disabled button, or a submit through it, does nothing
VerifyClick ==
  /\ tokenPage.view = "viewVerifyEmail"
  /\ tokenPage.pc = "shown"
  /\ tokenPage.token
  /\ ~tokenPage.disabled
  /\ ~tokenPage.modal
  /\ tokenPage.submissions < MaxSubmits
  /\ tokenPage' = verifyBtnClick(tokenPage)
  /\ UNCHANGED <<routerVars, apiVars, navVars, passkeyVars, codec, reporter, eggs, turnstile, uiVars>>

ResetSubmit ==
  /\ tokenPage.view = "viewReset"
  /\ tokenPage.pc = "shown"
  /\ tokenPage.token
  /\ ~tokenPage.disabled
  /\ tokenPage.submissions < MaxSubmits
  /\ \E valid \in BOOLEAN : tokenPage' = fResetSubmit(tokenPage, valid)
  /\ UNCHANGED <<routerVars, apiVars, navVars, passkeyVars, codec, reporter, eggs, turnstile, uiVars>>

TokenSubmitReturn ==
  /\ tokenPage.requests > 0
  /\ \E o \in Outcomes : tokenPage' = tokenSubmitReturn(tokenPage, o)
  /\ UNCHANGED <<routerVars, apiVars, navVars, passkeyVars, codec, reporter, eggs, turnstile, uiVars>>

VerifyCheckSessionDone ==
  /\ tokenPage.checks > 0
  /\ \E logged \in BOOLEAN : tokenPage' = verifyCheckSessionReturn(tokenPage, logged)
  /\ UNCHANGED <<routerVars, apiVars, navVars, passkeyVars, codec, reporter, eggs, turnstile, uiVars>>

TokenTimerFires ==
  /\ tokenPage.timers > 0
  /\ tokenPage' = tokenTimerFires(tokenPage)
  /\ UNCHANGED <<routerVars, apiVars, navVars, passkeyVars, codec, reporter, eggs, turnstile, uiVars>>

\* showInfoModal onOk: CybRouter.navigate('account-security')
TokenModalOk ==
  /\ tokenPage.modal
  /\ tokenPage' = leave(tokenPage)
  /\ UNCHANGED <<routerVars, apiVars, navVars, passkeyVars, codec, reporter, eggs, turnstile, uiVars>>

NextToken ==
  \/ TokenViewRender
  \/ VerifyClick
  \/ ResetSubmit
  \/ TokenSubmitReturn
  \/ VerifyCheckSessionDone
  \/ TokenTimerFires
  \/ TokenModalOk

(* ---------------------------------------------------------------------- *)
(* Navigating between views with and without a Turnstile widget            *)
(* ---------------------------------------------------------------------- *)
InitTurnstile ==
  /\ routerRev = "part_000"
  /\ hist = <<UrlPath(R_username)>>
  /\ histIdx = 1
  /\ cybLogin = FALSE
  /\ twoFAUserId = FALSE
  /\ view = "viewUsername"
  /\ lastOp = Op("firstRender", hist[1], "", CybRouterGetRoute(hist[1]), NullParam,
                 [pushed |-> <<>>, dispatched |-> <<CybRouterGetRoute(hist[1])>>])
  /\ online = TRUE
  /\ calls = [id \in CallIds |-> FreeCall]
  /\ tasks = <<>>
  /\ strawberry = FALSE
  /\ urlToken = FALSE
  /\ autoNavs = 0
  /\ hasPKC = TRUE
  /\ passkey = NoFlow
  /\ shownMsgs = {}
  /\ codec = NoCodec
  /\ reporter = NoReporter
  /\ eggs = NoEaster
  /\ tokenPage = NoTokenPage
  /\ turnstile = NoTurnstile
  /\ account = NoAccount
  /\ form = NoForm
  /\ net = NoNet
  /\ chat = NoChat

Settled(st) == [st EXCEPT !.justRendered = FALSE]

TurnstileRenderRoute ==
  /\ turnstile.renders < MaxRenders
  /\ \E r \in TurnstileRoutes, login, token \in BOOLEAN :
       turnstile' = turnstileRenderRoute(turnstile, r, login, token)
  /\ UNCHANGED <<routerVars, apiVars, navVars, passkeyVars, codec, reporter, eggs, tokenPage, uiVars>>

\* the api.js script of Turnstile finishes loading
TurnstileScriptLoads ==
  /\ ~turnstile.loaded
  /\ turnstile' = Settled([turnstile EXCEPT
                             !.loaded = TRUE,
                             !.inTime = turnstile.container /\ turnstile.waited < TS_MAX_TRIES])
  /\ UNCHANGED <<routerVars, apiVars, navVars, passkeyVars, codec, reporter, eggs, tokenPage, uiVars>>

\* 150 ms pass: every pending setTimeout(initTurnstile, 150) fires
TurnstileInterval ==
  /\ turnstile.chains > 0 \/ (turnstile.container /\ ~turnstile.loaded)
  /\ turnstile.waited <= TS_MAX_TRIES
  /\ turnstile' = Settled(pollAll([turnstile EXCEPT !.waited = @ + 1], turnstile.chains))
  /\ UNCHANGED <<routerVars, apiVars, navVars, passkeyVars, codec, reporter, eggs, tokenPage, uiVars>>

TurnstileSolved ==
  /\ turnstile.container
  /\ WidgetOfThisView(turnstile)
  /\ turnstile' = Settled(onTurnstileOk(turnstile))
  /\ UNCHANGED <<routerVars, apiVars, navVars, passkeyVars, codec, reporter, eggs, tokenPage, uiVars>>

TurnstileExpired ==
  /\ turnstile.container
  /\ WidgetOfThisView(turnstile)
  /\ turnstile.turnstileToken # <<>>
  /\ turnstile' = Settled(onTurnstileExpired(turnstile))
  /\ UNCHANGED <<routerVars, apiVars, navVars, passkeyVars, codec, reporter, eggs, tokenPage, uiVars>>

NextTurnstile ==
  \/ TurnstileRenderRoute
  \/ TurnstileScriptLoads
  \/ TurnstileInterval
  \/ TurnstileSolved
  \/ TurnstileExpired

(* ---------------------------------------------------------------------- *)
(* The account page with its loads in flight                               *)
(* ---------------------------------------------------------------------- *)
\* A logged-in user on the account page: boot has rendered account-profile
\* and viewAccount is suspended at its 200 ms pause.
InitAccount ==
  /\ routerRev \in RouterRevs
  /\ hist = <<UrlPath(R_account_profile)>>
  /\ histIdx = 1
  /\ cybLogin = TRUE
  /\ twoFAUserId = FALSE
  /\ view = "viewAccount"
  /\ lastOp = Op("boot", hist[1], "", R_account_profile, NullParam, NoTrace)
  /\ online = TRUE
  /\ calls = [id \in CallIds |-> FreeCall]
  /\ tasks = <<>>
  /\ strawberry = FALSE
  /\ urlToken = FALSE
  /\ autoNavs = 0
  /\ hasPKC = TRUE
  /\ passkey = NoFlow
  /\ shownMsgs = {}
  /\ codec = NoCodec
  /\ reporter = NoReporter
  /\ eggs = NoEaster
  /\ tokenPage = NoTokenPage
  /\ turnstile = NoTurnstile
  /\ account = [NoAccount EXCEPT
                  !.page = 1, !.renders = 1, !.tab = "profile", !.accBody = "loading",
                  !.loads = <<[gen |-> 1, el |-> 0, tab |-> "profile", pc |-> "start"]>>]
  /\ form = NoForm
  /\ net = NoNet
  /\ chat = NoChat

Quiet(st) == [st EXCEPT !.last = NoStep, !.click = NoClick]

CommitAccount(b, st) ==
  /\ hist' = b.hist
  /\ histIdx' = b.idx
  /\ view' = b.view
  /\ account' = st
  /\ UNCHANGED <<routerRev, cybLogin, twoFAUserId, lastOp, apiVars, navVars, passkeyVars,
                 auxVars, form, net, chat>>

\* a click on a button of .account-nav
AccountTabClick ==
  \E t \in AccountTabs :
    /\ account.page # 0
    /\ account.renders < MaxLoads
    /\ LET b == navigate(Browser, TabRoute(t)) IN
       CommitAccount(b, clicked(Quiet(accountRendered(account, b)), TabRoute(t), b))

\* the edit button of the profile tab: onclick="CybRouter.navigate('edit-profile')"
AccountEditProfileClick ==
  /\ account.page # 0
  /\ account.accBody = "profile"
  /\ account.renders < MaxLoads
  /\ LET b == navigate(Browser, R_edit_profile) IN
     CommitAccount(b, clicked(Quiet(accountRendered(account, b)), R_edit_profile, b))

\* the back button of the browser: popstate -> render
AccountHistoryBack ==
  /\ histIdx > 1
  /\ account.renders < MaxLoads
  /\ LET b == render([Browser EXCEPT !.idx = @ - 1]) IN
     CommitAccount(b, Quiet(accountRendered(account, b)))

\* the 200 ms pause of a viewAccount invocation ends and fetchMe is issued
AccountDelay ==
  \E i \in DOMAIN account.loads :
    /\ account.loads[i].pc = "start"
    /\ CommitAccount(Browser, Quiet([account EXCEPT !.loads[i].pc = "fetchMe"]))

AccountFetchMeReturn ==
  \E i \in DOMAIN account.loads, o \in Outcomes, flags \in {"array", "number"} :
    /\ account.loads[i].pc = "fetchMe"
    /\ LET b0 == apiCallReturn(Browser, EP_auth_me, o)
           b  == IF o # "ok" THEN viewAccountNotAuthenticated(b0) ELSE b0
           st == [account EXCEPT !.loads = RemoveAt(@, i)]
       IN CommitAccount(b, viewAccountAfterFetchMe(accountRendered(Quiet(st), b),
                                                   account.loads[i], o, flags))

AccountSessionsReturn ==
  \E i \in DOMAIN account.loads, o \in Outcomes :
    /\ account.loads[i].pc = "sessions"
    /\ LET b  == apiCallReturn(Browser, EP_auth_sessions, o)
           st == [account EXCEPT !.loads = RemoveAt(@, i)]
       IN CommitAccount(b, Quiet(viewAccountAfterSessions(accountRendered(st, b),
                                                          account.loads[i], o)))

NextAccount ==
  \/ AccountTabClick \/ AccountEditProfileClick \/ AccountHistoryBack \/ AccountDelay
  \/ AccountFetchMeReturn \/ AccountSessionsReturn

(* ---------------------------------------------------------------------- *)
(* Boot, then navigation by hand                                           *)
(* ---------------------------------------------------------------------- *)
\* what boot did: the route r it had read, the answer ok of checkSession and
\* the navigations and cyb:route events it caused
BootOp(path, r, ok, b) ==
  [op |-> "boot", path |-> path, route |-> r, ok |-> ok,
   pushed |-> b.pushed, dispatched |-> b.dispatched]

\* CybRouter.navigate(to) in a session that checkSession found logged in or not
NavigateOp(to, ok, b) ==
  [op |-> "navigate", path |-> UrlPath(to), route |-> CybRouterGetRoute(UrlPath(to)),
   ok |-> ok, pushed |-> b.pushed, dispatched |-> b.dispatched]

CommitBoot(b, op) ==
  /\ hist' = b.hist
  /\ histIdx' = b.idx
  /\ view' = b.view
  /\ lastOp' = op
  /\ tasks' = b.spawn
  /\ urlToken' = IF b.pushed # <<>> THEN FALSE ELSE urlToken
  /\ UNCHANGED <<routerRev, cybLogin, twoFAUserId, apiVars, strawberry, autoNavs,
                 passkeyVars, auxVars, uiVars>>

\* checkSession answers and boot runs to its end
BootReturns ==
  \E o \in Outcomes :
    /\ lastOp.op = "firstRender"
    /\ LET b == bootAfterCheckSession(apiCallReturn(Browser, EP_auth_me, o),
                                      tasks[1].arg, o = "ok") IN
       CommitBoot(b, BootOp(hist[1], tasks[1].arg, o = "ok", b))

\* after boot a click handler of the page calls CybRouter.navigate(to)
BootedNavigate ==
  \E to \in NavTargets :
    /\ lastOp.op # "firstRender"
    /\ Len(hist) < MaxHist
    /\ LET b == navigate(Browser, to) IN
       CommitBoot(b, NavigateOp(to, lastOp.ok, b))

NextBoot == BootReturns \/ BootedNavigate

(* ---------------------------------------------------------------------- *)
(* Submitting a form protected by Turnstile                                *)
(* ---------------------------------------------------------------------- *)
\* One of the forms has just been rendered: turnstileToken is '' and the
\* widget waits for the visitor.
InitForm ==
  /\ routerRev \in RouterRevs
  /\ hist = <<UrlPath(R_signup)>>
  /\ histIdx = 1
  /\ cybLogin = TRUE
  /\ twoFAUserId = FALSE
  /\ view = "none"
  /\ lastOp = Op("firstRender", hist[1], "", CybRouterGetRoute(hist[1]), NullParam, NoTrace)
  /\ online = TRUE
  /\ calls = [id \in CallIds |-> FreeCall]
  /\ tasks = <<>>
  /\ strawberry = FALSE
  /\ urlToken = FALSE
  /\ autoNavs = 0
  /\ hasPKC = TRUE
  /\ passkey = NoFlow
  /\ shownMsgs = {}
  /\ codec = NoCodec
  /\ reporter = NoReporter
  /\ eggs = NoEaster
  /\ tokenPage = NoTokenPage
  /\ turnstile = NoTurnstile
  /\ account = NoAccount
  /\ \E v \in FormViews : form = [NoForm EXCEPT !.view = v]
  /\ net = NoNet
  /\ chat = NoChat

\* the visitor solves the challenge: the widget calls window.onTurnstileOk
\* with a token it has not handed out before
FormTurnstileSolved ==
  /\ ~form.left
  /\ form.turnstileToken = <<>>
  /\ form' = [onTurnstileOk(form) EXCEPT !.uses = 0]
  /\ UNCHANGED <<routerVars, apiVars, navVars, passkeyVars, auxVars, account, net, chat>>

\* the token expires: the widget calls window.onTurnstileExpired
FormTurnstileExpired ==
  /\ ~form.left
  /\ form.turnstileToken # <<>>
  /\ form' = onTurnstileExpired(form)
  /\ UNCHANGED <<routerVars, apiVars, navVars, passkeyVars, auxVars, account, net, chat>>

\* a submit event: the browser fires none while the submit button is disabled
FormSubmit ==
  \E valid \in BOOLEAN :
    /\ ~form.left
    /\ ~form.disabled
    /\ form.submits < MaxSubmits
    /\ form' = formSubmit(form, valid)
    /\ UNCHANGED <<routerVars, apiVars, navVars, passkeyVars, auxVars, account, net, chat>>

FormReturn ==
  \E i \in DOMAIN form.inflight, o \in Outcomes :
    /\ form' = formReturn(form, i, o)
    /\ UNCHANGED <<routerVars, apiVars, navVars, passkeyVars, auxVars, account, net, chat>>

NextForm == FormTurnstileSolved \/ FormTurnstileExpired \/ FormSubmit \/ FormReturn

(* ---------------------------------------------------------------------- *)
(* The connection going down and coming back                               *)
(* ---------------------------------------------------------------------- *)
\* login.js has registered its listeners; the page may have been loaded
\* from cache without a connection.
InitNet ==
  /\ routerRev \in RouterRevs
  /\ hist = <<UrlPath(R_username)>>
  /\ histIdx = 1
  /\ cybLogin = FALSE
  /\ twoFAUserId = FALSE
  /\ view = "none"
  /\ lastOp = Op("firstRender", hist[1], "", CybRouterGetRoute(hist[1]), NullParam, NoTrace)
  /\ online \in BOOLEAN
  /\ calls = [id \in CallIds |-> FreeCall]
  /\ tasks = <<>>
  /\ strawberry = FALSE
  /\ urlToken = FALSE
  /\ autoNavs = 0
  /\ hasPKC = TRUE
  /\ passkey = NoFlow
  /\ shownMsgs = {}
  /\ codec = NoCodec
  /\ reporter = NoReporter
  /\ eggs = NoEaster
  /\ tokenPage = NoTokenPage
  /\ turnstile = NoTurnstile
  /\ account = NoAccount
  /\ form = NoForm
  /\ net = NoNet
  /\ chat = NoChat

\* navigator.onLine turns false and the browser fires 'offline'
NetOffline ==
  /\ online
  /\ net.events < MaxNetEvents
  /\ online' = FALSE
  /\ net' = onOffline(net)
  /\ UNCHANGED <<routerVars, calls, navVars, passkeyVars, auxVars, account, form, chat>>

\* navigator.onLine turns true and the browser fires 'online'
NetOnline ==
  /\ ~online
  /\ net.events < MaxNetEvents
  /\ online' = TRUE
  /\ net' = onOnline(net)
  /\ UNCHANGED <<routerVars, calls, navVars, passkeyVars, auxVars, account, form, chat>>

\* one of the 3-second timers fires
NetTimerFires ==
  /\ net.timers > 0
  /\ net' = removeNotification(net)
  /\ UNCHANGED <<routerVars, apiVars, navVars, passkeyVars, auxVars, account, form, chat>>

NextNet == NetOffline \/ NetOnline \/ NetTimerFires

(* ---------------------------------------------------------------------- *)
(* Opening chats on the messages tab                                       *)
(* ---------------------------------------------------------------------- *)
\* The messages tab is on screen with its list of friends and no chat open.
InitChat ==
  /\ routerRev \in RouterRevs
  /\ hist = <<UrlPath(R_account_messages)>>
  /\ histIdx = 1
  /\ cybLogin = TRUE
  /\ twoFAUserId = FALSE
  /\ view = "viewAccount"
  /\ lastOp = Op("firstRender", hist[1], "", CybRouterGetRoute(hist[1]), NullParam, NoTrace)
  /\ online = TRUE
  /\ calls = [id \in CallIds |-> FreeCall]
  /\ tasks = <<>>
  /\ strawberry = FALSE
  /\ urlToken = FALSE
  /\ autoNavs = 0
  /\ hasPKC = TRUE
  /\ passkey = NoFlow
  /\ shownMsgs = {}
  /\ codec = NoCodec
  /\ reporter = NoReporter
  /\ eggs = NoEaster
  /\ tokenPage = NoTokenPage
  /\ turnstile = NoTurnstile
  /\ account = NoAccount
  /\ form = NoForm
  /\ net = NoNet
  /\ chat = NoChat

\* a click on a chat card of the list, or the timer that opens the chat
\* named by sessionStorage.openChatWith
OpenChat ==
  \E f \in Friends :
    /\ chat.page # "other"
    /\ chat.opens < MaxOpens
    /\ chat' = openChat(chat, f)
    /\ UNCHANGED <<routerVars, apiVars, navVars, passkeyVars, auxVars, account, form, net>>

\* 3 seconds have passed for one of the intervals
ChatPoll ==
  \E i \in DOMAIN chat.timers :
    /\ Len(chat.loads) < MaxChatLoads
    /\ chat' = updateIntervalFires(chat, i)
    /\ UNCHANGED <<routerVars, apiVars, navVars, passkeyVars, auxVars, account, form, net>>

ChatLoadReturn ==
  \E i \in DOMAIN chat.loads, ok \in BOOLEAN :
    /\ chat' = loadChatMessagesReturn(chat, i, ok)
    /\ UNCHANGED <<routerVars, apiVars, navVars, passkeyVars, auxVars, account, form, net>>

\* a click on the chat's close button
ChatClose ==
  /\ chat.page = "chat"
  /\ chat' = loadMessagesTab(chat)
  /\ UNCHANGED <<routerVars, apiVars, navVars, passkeyVars, auxVars, account, form, net>>

\* the user goes to another tab or view, or comes back to the messages tab
ChatLeave ==
  /\ chat' = IF chat.page = "other" THEN [chat EXCEPT !.page = "list"]
             ELSE chatRemoved(chat)
  /\ UNCHANGED <<routerVars, apiVars, navVars, passkeyVars, auxVars, account, form, net>>

NextChat == OpenChat \/ ChatPoll \/ ChatLoadReturn \/ ChatClose \/ ChatLeave

(* ====================================================================== *)
(* Router claims                                                           *)
(* ====================================================================== *)
\* A path is "a single non-empty segment" when its non-slash characters are
\* a non-empty contiguous block; Segment is that block.
IsSingleSegment(p) ==
  \E i, j \in 1..Len(p) :
    /\ i <= j
    /\ \A k \in 1..Len(p) : (p[k] # Slash) <=> (i <= k /\ k <= j)

Segment(p) == SelectSeq(p, LAMBDA c : c # Slash)

AllowList ==
  { R_signup, R_account_profile, R_account_security, R_account_sessions,
    R_account_easter_eggs, R_verify_email, R_username, R_password, R_2fa,
    R_2fa_verify, R_reset, R_done, R_strawberry_history }

\* C6: for every path that is a single non-empty segment outside the
\* allow-list, getRoute() returns 'profile' and getRouteParam('username')
\* returns exactly that segment.
C6_ProfileForUnknownSegment ==
  /\ (lastOp.op = "getRoute" /\ IsSingleSegment(lastOp.path)
        /\ Segment(lastOp.path) \notin AllowList)
       => lastOp.route = R_profile
  /\ (lastOp.op = "getRouteParam" /\ lastOp.name = "username"
        /\ IsSingleSegment(lastOp.path) /\ Segment(lastOp.path) \notin AllowList)
       => lastOp.param = SomeParam(Segment(lastOp.path))

\* C7: for every path whose stripped form is one of the 13 allow-list
\* tokens, getRoute() returns exactly that token.
C7_AllowListTokenReturned ==
  (lastOp.op = "getRoute" /\ IsSingleSegment(lastOp.path)
     /\ Segment(lastOp.path) \in AllowList)
    => lastOp.route = Segment(lastOp.path)

C7_Witness ==
  /\ lastOp.op = "getRoute"
  /\ lastOp.path = <<Slash, Slash>> \o R_strawberry_history \o <<Slash, Slash>>
  /\ lastOp.route = R_strawberry_history

\* C8: for every path that is empty after slash stripping or has more than
\* one segment, getRoute() returns 'username' and getRouteParam returns null
\* for every parameter name.
C8_DefaultForEmptyOrMultiSegment ==
  /\ (lastOp.op = "getRoute" /\ ~IsSingleSegment(lastOp.path))
       => lastOp.route = R_username
  /\ (lastOp.op = "getRouteParam" /\ ~IsSingleSegment(lastOp.path))
       => lastOp.param = NullParam

C8_Witness ==
  /\ lastOp.op = "getRouteParam"
  /\ lastOp.name = "username"
  /\ lastOp.path = <<Slash>> \o U_alice \o <<Slash, "a">>
  /\ lastOp.param = NullParam

\* C9 as stated: navigate(to) pushes exactly one history entry, for '/' + to,
\* and dispatches exactly one cyb:route event before it returns; a popstate
\* dispatches exactly one cyb:route event and pushes no entry.
C9_ExactlyOnePushAndEvent ==
  /\ lastOp.op = "navigate"
       => /\ lastOp.pushed = <<lastOp.path>>
          /\ lastOp.dispatched = <<lastOp.route>>
  /\ lastOp.op = "popstate"
       => /\ lastOp.pushed = <<>>
          /\ lastOp.dispatched = <<lastOp.route>>

\* The guard of viewPassword / view2FAVerify redirects from inside the
\* cyb:route listener.
GuardRedirects(route) ==
  \/ route = R_password /\ ~cybLogin
  \/ route = R_2fa_verify /\ ~twoFAUserId

\* C9 amended: every navigate(to) first pushes '/' + to and dispatches the
\* route of that path, every popstate first dispatches the route of the
\* current path; nothing more happens before the call returns unless that
\* route is 'password' without a stored login or '2fa-verify' without a
\* stored user id, in which case the view guard calls navigate('username')
\* from inside the listener: one more entry '/username' is pushed and one
\* more event, for 'username', is dispatched.
C9_OnePushAndEventPerInvocation ==
  /\ lastOp.op = "navigate"
       => IF GuardRedirects(lastOp.route)
            THEN /\ lastOp.pushed = <<lastOp.path, UrlPath(R_username)>>
                 /\ lastOp.dispatched = <<lastOp.route, R_username>>
            ELSE /\ lastOp.pushed = <<lastOp.path>>
                 /\ lastOp.dispatched = <<lastOp.route>>
  /\ lastOp.op = "popstate"
       => IF GuardRedirects(lastOp.route)
            THEN /\ lastOp.pushed = <<UrlPath(R_username)>>
                 /\ lastOp.dispatched = <<lastOp.route, R_username>>
            ELSE /\ lastOp.pushed = <<>>
                 /\ lastOp.dispatched = <<lastOp.route>>
  /\ lastOp.op \in {"navigate", "popstate"}
       => /\ lastOp.path = IF lastOp.op = "navigate"
                             THEN hist[histIdx - Len(lastOp.pushed) + 1]
                             ELSE hist[histIdx - Len(lastOp.pushed)]
          /\ lastOp.dispatched[Len(lastOp.dispatched)] = CybRouterGetRoute(Pathname)

C9_Witness ==
  /\ lastOp.op = "popstate"
  /\ lastOp.route = R_password
  /\ lastOp.pushed = <<UrlPath(R_username)>>
  /\ view = "viewUsername"

(* ====================================================================== *)
(* apiCall claims                                                          *)
(* ====================================================================== *)
Returned401(c) ==
  c.pc = "returned" /\ c.result.kind = "response" /\ c.result.status = 401

\* C1 as stated: a 401 from /auth/me, /auth/login or /auth/register never
\* triggers navigation, and a 401 from any other endpoint always triggers
\* CybRouter.navigate('username') before apiCall returns the response.
C1_RedirectUnlessOneOfThree ==
  \A id \in CallIds :
    Returned401(calls[id]) =>
      (calls[id].navigated <=>
         ~(\E x \in {EP_auth_me, EP_auth_login, EP_auth_register} :
             Includes(calls[id].endpoint, x)))

\* C1 amended: a 401 from an endpoint whose text contains '/auth/me',
\* '/auth/login' (hence also '/auth/login-history'), '/auth/register' or
\* '/auth/trusted-devices' never triggers navigation; a 401 from any other
\* endpoint has made CybRouter.navigate('username') push '/username' and
\* render the login view before apiCall returns; no other status navigates.
C1_RedirectUnlessExcluded ==
  \A id \in CallIds :
    /\ Returned401(calls[id]) =>
         (calls[id].navigated <=>
            ~(\E x \in {EP_auth_me, EP_auth_login, EP_auth_register,
                        EP_auth_trusted_devices} :
                Includes(calls[id].endpoint, x)))
    /\ calls[id].navigated =>
         /\ Returned401(calls[id])
         /\ Pathname = UrlPath(R_username)
         /\ view = "viewUsername"

C1_Witness ==
  \E id \in CallIds :
    /\ Returned401(calls[id])
    /\ calls[id].endpoint = EP_auth_sessions
    /\ calls[id].navigated
    /\ lastOp.op = "navigate"

\* C3: when the underlying fetch never resolves, the abort timer fires after
\* timeoutMs and apiCall resolves with a synthetic response, ok = false and
\* status = 0.
C3_TimeoutResolves ==
  \A id \in CallIds :
    (calls[id].pc = "fetching" /\ calls[id].hang)
      ~> /\ calls[id].pc = "returned"
         /\ calls[id].timer = "fired"
         /\ calls[id].elapsed = TicksPerTimeout
         /\ calls[id].timeoutMs = DefaultTimeoutMs
         /\ calls[id].result.kind = "synthetic"
         /\ ~calls[id].result.ok
         /\ calls[id].result.status = 0

C3_Witness ==
  \E id \in CallIds :
    /\ calls[id].hang
    /\ calls[id].pc = "returned"
    /\ calls[id].timer = "fired"
    /\ calls[id].elapsed = TicksPerTimeout
    /\ calls[id].result.status = 0
    /\ calls[id].result.error = "MSG_TIMEOUT"

\* C4: apiCall never rejects; whenever fetch failed (abort, network error,
\* any other exception) it has resolved with a response-shaped object with
\* ok = false, status = 0 and a json() carrying an error message.
C4_NeverRejects ==
  \A id \in CallIds :
    /\ calls[id].pc # "rejected"
    /\ calls[id].fetch = "rejected" =>
         /\ calls[id].pc = "returned"
         /\ calls[id].result.kind = "synthetic"
         /\ ~calls[id].result.ok
         /\ calls[id].result.status = 0
         /\ calls[id].result.error \in
              {"MSG_TIMEOUT", "MSG_CONNECT", "MSG_NETWORK",
               "MSG_ERROR_MESSAGE", "MSG_UNKNOWN"}
    /\ calls[id].fetch = "fulfilled" =>
         calls[id].pc = "returned" /\ calls[id].result.kind = "response"

C4_Witness ==
  \E id \in CallIds :
    /\ calls[id].fetch = "rejected"
    /\ calls[id].pc = "returned"
    /\ calls[id].result.error = "MSG_ERROR_MESSAGE"
    /\ calls[id].result.statusText = "error.message"

\* C5: when navigator.onLine is false at the time of the call, no request is
\* issued, no abort timer is started, and apiCall resolves with a synthetic
\* response with ok = false and status = 0.
C5_OfflineShortCircuit ==
  \A id \in CallIds :
    (calls[id].pc # "free" /\ ~calls[id].onLine) =>
      /\ ~calls[id].fetchIssued
      /\ calls[id].fetch = "none"
      /\ calls[id].timer = "none"
      /\ calls[id].pc = "returned"
      /\ calls[id].result.kind = "synthetic"
      /\ ~calls[id].result.ok
      /\ calls[id].result.status = 0

C5_Witness ==
  \E id \in CallIds :
    /\ calls[id].pc = "returned"
    /\ ~calls[id].onLine
    /\ calls[id].result = OfflineResponse
    /\ calls[id].endpoint = EP_auth_me

(* ====================================================================== *)
(* Redirect and passkey claims                                             *)
(* ====================================================================== *)
\* C2: there is no infinite redirect loop. From any route and whatever the
\* server answers (401 included), boot, the view guards and the 401 rule of
\* apiCall applied to the requests of the views navigate at most twice in
\* total, and a step that renders the login view leaves no more suspended
\* requests than there were: the login view issues none of its own.
C2_NoRedirectLoop ==
  /\ [](autoNavs <= 2)
  /\ [][ (view' = "viewUsername" /\ (view # "viewUsername" \/ autoNavs' > autoNavs))
           => Len(tasks') <= Len(tasks) ]_vars

C2_Witness ==
  /\ autoNavs = 2
  /\ view = "viewUsername"
  /\ Pathname = UrlPath(R_username)
  /\ tasks = <<>>

\* C10: when window.PublicKeyCredential is absent, a started passkey login
\* or registration has sent no request and has not called
\* navigator.credentials; it has ended with the capability message.
C10_NoPasskeyWithoutApi ==
  (~hasPKC /\ passkey.flow # "none") =>
    /\ passkey.requests = <<>>
    /\ passkey.credCalls = 0
    /\ passkey.pc = "done"
    /\ passkey.msg = IF passkey.flow = "login"
                       THEN Alert("T_LOGIN_UNSUPPORTED")
                       ELSE ShowMsg("error", "T_REG_UNSUPPORTED")

C10_Witness ==
  /\ ~hasPKC
  /\ passkey.flow = "register"
  /\ passkey.pc = "done"
  /\ passkey.msg.text = "T_REG_UNSUPPORTED"

(* ====================================================================== *)
(* Passkey flow claims                                                     *)
(* ====================================================================== *)
Count(seq, e) == Cardinality({ i \in DOMAIN seq : seq[i] = e })

C12_DistinctFailureMessages ==
  \A a \in shownMsgs, b \in shownMsgs :
    (a.flow = b.flow /\ a.failure # b.failure) => a.text # b.text

\* C13: one initiation of passkey login or registration has sent at most one
\* options request and at most one verification or registration POST and
\* has started at most one navigator.credentials ceremony, whatever failed;
\* once the handler has finished the initiating control is enabled.
C13_NoAutomaticRetry ==
  /\ passkey.credCalls <= 1
  /\ \A e \in {EP_auth_passkey_login_options, EP_auth_passkey_login,
               EP_auth_passkey_register_options, EP_auth_passkey_register} :
       Count(passkey.requests, e) <= 1
  /\ passkey.pc \in {"done", "idle"} => ~passkey.disabled
  /\ passkey.flow = "login" /\ passkey.pc \in {"options", "ceremony", "finish"}
       => passkey.disabled

C13_Witness ==
  /\ passkey.flow = "login"
  /\ passkey.failure = "server"
  /\ passkey.pc = "done"
  /\ ~passkey.disabled
  /\ passkey.credCalls = 1
  /\ Len(passkey.requests) = 2

\* C14: for every byte buffer B, decoding the base64url encoding of B gives
\* B back, the encoding holds no '+', '/' or '=', and decoding the padded
\* form of the same value gives B as well.
C14_Base64urlRoundTrip ==
  /\ codec.pc \in {"encoded", "decoded"} =>
       /\ \A i \in DOMAIN codec.encoded : codec.encoded[i] \notin {"+", "/", "="}
       /\ codec.encoded = RemoveAll(base64urlPadded(codec.buf), "=")
  /\ codec.pc = "decoded" =>
       /\ codec.decoded = codec.buf
       /\ codec.decodedPadded = codec.buf

C14_Witness ==
  /\ codec.pc = "decoded"
  /\ codec.buf = <<251, 255>>
  /\ codec.encoded = <<"-", "_", "8">>
  /\ base64urlPadded(codec.buf) = <<"-", "_", "8", "=">>
  /\ codec.decoded = <<251, 255>>

(* ====================================================================== *)
(* Error reporter claims                                                   *)
(* ====================================================================== *)
\* C15: at most MAX_ERRORS_PER_MINUTE calls of /error/report are made within
\* any 60 seconds, the calls of both handlers counted together.
C15_AtMostTenReportsPerMinute ==
  ReportsInWindow(reporter) <= MAX_ERRORS_PER_MINUTE

C15_Witness ==
  /\ ReportsInWindow(reporter) = MAX_ERRORS_PER_MINUTE
  /\ reporter.handled.handler = "onunhandledrejection"
  /\ ~reporter.handled.duplicate
  /\ ~reporter.handled.reported
  /\ \E a \in 1..(MinuteTicks - 1) : reporter.reports[a] > 0

\* C16: once 60 seconds have passed without a captured error, errorCount is
\* back to 0 (every captured error counts for 60 seconds only).
C16_CountBackToZeroAfterQuietMinute ==
  reporter.quiet = MinuteTicks => reporter.errorCount = 0

\* C17: a synchronous error whose key was cached less than 60 seconds ago is
\* a duplicate: it is not reported and leaves errorCount alone; one whose key
\* was cached 60 seconds ago or more, or never, is handled as a new error: it
\* is counted, and reported unless the rate limit drops it.
C17_DuplicatesDroppedForOneMinute ==
  LET h == reporter.handled IN
  h.handler = "onerror" =>
    /\ h.duplicate <=> h.sinceCached < MinuteTicks
    /\ h.duplicate => ~h.reported /\ h.countAfter = h.countBefore
    /\ ~h.duplicate =>
         /\ h.countAfter = h.countBefore + 1
         /\ h.reported <=> h.countAfter <= MAX_ERRORS_PER_MINUTE
         /\ has(reporter, h.key) <=> h.key \in ErrorKeys

C17_Witness ==
  LET h == reporter.handled IN
  /\ h.handler = "onerror"
  /\ h.key = syncErrorKey([message |-> <<"a">>, source |-> <<"b", ":", "s">>, lineno |-> <<"1">>])
  /\ h.duplicate
  /\ h.sinceCached = MinuteTicks - 1
  /\ h.countBefore = 1
  /\ reporter.errorCount = 1
  /\ ReportsInWindow(reporter) = 1

(* ====================================================================== *)
(* Easter-egg flag claims                                                  *)
(* ====================================================================== *)
\* C18: whenever a login response or an /auth/me response has shown that the
\* server lacks a flag that is set locally, the sync endpoint of that flag has
\* been called, on every path: password login, 2FA, passkey login, signup
\* and the load of the account view.
C18_LackingFlagIsSynced ==
  eggs.pc \in {"navigated", "account"} =>
    \A f \in eggs.lacking : Count(eggs.requests, SyncEndpoint(f)) >= 1

(* ====================================================================== *)
(* Token claims                                                            *)
(* ====================================================================== *)
\* C19 as stated: the token is submitted at most once per page visit.
C19_SubmittedAtMostOnce ==
  tokenPage.submissions <= 1

\* C19: a token is submitted only from a page that was opened with one, the
\* button is disabled while a submission or its checkSession is awaited, so
\* at most one is in flight at a time; and once a submission has succeeded
\* the URL holds no token, unless the step that strips it is still pending
\* (the awaited checkSession of viewVerifyEmail, the 900 ms timer of
\* viewReset).
C19_OneSubmissionInFlightAndStripped ==
  /\ tokenPage.requests + tokenPage.checks <= 1
  /\ (tokenPage.pc = "shown" /\ tokenPage.requests + tokenPage.checks = 1) => tokenPage.disabled
  /\ tokenPage.submissions > 0 => tokenPage.token
  /\ tokenPage.succeeded =>
       \/ ~tokenPage.urlToken
       \/ tokenPage.checks > 0
       \/ tokenPage.timers > 0

C19_Witness ==
  /\ tokenPage.view = "viewVerifyEmail"
  /\ tokenPage.pc = "shown"
  /\ tokenPage.submissions = 2
  /\ tokenPage.succeeded
  /\ ~tokenPage.urlToken
  /\ tokenPage.requests = 1
  /\ tokenPage.disabled

C21_NoDuplicateWidget ==
  /\ Cardinality(turnstile.widgets) <= 1
  /\ turnstile.widgets = { turnstile.turnstileWidgetId[i] : i \in DOMAIN turnstile.turnstileWidgetId }

C21_Witness ==
  /\ turnstile.rendered = 2
  /\ turnstile.widgets = {2}
  /\ turnstile.renders = 2
  /\ turnstile.waited = 1
  /\ turnstile.chains = 0
  /\ ~turnstile.justRendered

\* C28: when window.turnstile has become available within TS_MAX_TRIES
\* intervals after the render of a view with a container, and no poll is
\* pending any more, the view has its widget.
C28_EachViewGetsItsWidget ==
  (turnstile.container /\ turnstile.inTime /\ turnstile.chains = 0)
    => WidgetOfThisView(turnstile)

(* ---------------------------------------------------------------------- *)
(* Account page claims                                                     *)
(* ---------------------------------------------------------------------- *)
\* C22: overlapping loads of the account view are neither deduplicated nor
\* sequenced: a viewAccount invocation whose /auth/me response resolves with
\* success writes #accBody of the account page then shown, whichever
\* navigation started it, so the response that resolved last is what the
\* page holds.
C22_LastResolvedWins ==
  LET l == account.last IN
  (l.o = "ok" /\ ~l.threw /\ account.page # 0) =>
    /\ l.wrote
    /\ account.writer = l.gen
    /\ account.accBody = IF l.tab = "sessions" THEN "sessionsLoading" ELSE l.tab

\* the page of the second navigation holds the tab of the first one while
\* its own load is still in flight
C22_Witness ==
  /\ account.last.o = "ok"
  /\ account.last.gen = 1
  /\ account.page = 2
  /\ account.tab = "security"
  /\ account.accBody = "profile"
  /\ \E i \in DOMAIN account.loads : account.loads[i].gen = 2

C24_NavigateRendersSameRoute ==
  account.click.to # <<>> => account.click.dispatched = <<account.click.to>>

(* ---------------------------------------------------------------------- *)
(* Boot claims                                                             *)
(* ---------------------------------------------------------------------- *)
\* the routes a logged-in visitor is taken away from
Gated(r) ==
  /\ ~StartsWith(r, P_account)
  /\ r \notin {R_profile, R_strawberry_history, R_verify_email, R_2fa_verify}

\* the browser boot started in
BootBrowser(path) ==
  [hist |-> <<path>>, idx |-> 1, view |-> "none",
   pushed |-> <<>>, dispatched |-> <<>>, spawn |-> <<>>]

\* C23: at boot, when the session probe succeeds and the resolved route
\* neither starts with 'account-' nor is profile, strawberry-history,
\* verify-email or 2fa-verify, the client navigates to account-profile and
\* the resolved route is not rendered; in every other case boot does what
\* renderRoute of the resolved route does; and CybRouter.navigate dispatches
\* the route of the path it pushed whether or not there is a session.
C23_BootGatesRouterDoesNot ==
  /\ lastOp.op = "boot" =>
       IF lastOp.ok /\ Gated(lastOp.route)
         THEN /\ lastOp.pushed = <<UrlPath(R_account_profile)>>
              /\ lastOp.dispatched = <<R_account_profile>>
              /\ hist[histIdx] = UrlPath(R_account_profile)
              /\ view = "viewAccount"
         ELSE LET b == renderRoute(BootBrowser(lastOp.path), lastOp.route) IN
              /\ view = b.view
              /\ hist = b.hist
              /\ lastOp.pushed = b.pushed
              /\ lastOp.dispatched = b.dispatched
  /\ lastOp.op = "navigate" =>
       /\ lastOp.pushed[1] = lastOp.path
       /\ lastOp.dispatched[1] = CybRouterGetRoute(lastOp.path)

\* a logged-in visitor who opened /signup is on the account page
C23_Witness ==
  /\ lastOp.op = "boot"
  /\ lastOp.ok
  /\ lastOp.route = R_signup
  /\ hist = <<UrlPath(R_signup), UrlPath(R_account_profile)>>
  /\ view = "viewAccount"

(* ---------------------------------------------------------------------- *)
(* Form claims                                                             *)
(* ---------------------------------------------------------------------- *)
\* C26: between the moment a Turnstile token is obtained and the moment it
\* is cleared at most one request carries it, also when the form is
\* submitted again while a request is in flight.
C26_TokenSentAtMostOnce == form.uses <= 1

\* C27: on the new-password form of viewReset every submit attempt ends with
\* the submit button enabled again: once no request is in flight the button
\* of the page is enabled.
C27_ButtonEnabledAfterEveryAttempt ==
  (tokenPage.view = "viewReset" /\ tokenPage.pc = "shown" /\ tokenPage.requests = 0)
    => ~tokenPage.disabled

(* ---------------------------------------------------------------------- *)
(* Network banner claims                                                   *)
(* ---------------------------------------------------------------------- *)
\* C29: whenever the last connectivity event was 'offline', the offline
\* notification is in the page and shows the offline state.
C29_BannerShowsOffline == net.last = "offline" => net.banner = "offline"

(* ---------------------------------------------------------------------- *)
(* Chat claims                                                             *)
(* ---------------------------------------------------------------------- *)
\* C30: at most one chat polling timer is active, and the messages in the
\* chat container are those of the friend opened most recently.
C30_OneTimerAndCurrentFriend ==
  /\ Len(chat.timers) <= 1
  /\ chat.shown \in {"none", chat.friend}

SpecRouter == InitRouter /\ [][NextRouter]_vars

SpecApi == InitApi /\ [][NextApi]_vars

SpecApiFair == SpecApi /\ WF_vars(Tick) /\ WF_vars(TimerFire)

SpecNav == InitNav /\ [][NextNav]_vars

SpecPasskey == InitPasskey /\ [][NextPasskey]_vars

SpecCodec == InitCodec /\ [][NextCodec]_vars

SpecReporter == InitReporter /\ [][NextReporter]_vars

SpecEaster == InitEaster /\ [][NextEaster]_vars

SpecToken == InitToken /\ [][NextToken]_vars

SpecTurnstile == InitTurnstile /\ [][NextTurnstile]_vars

SpecAccount == InitAccount /\ [][NextAccount]_vars

SpecBoot == InitNav /\ [][NextBoot]_vars

SpecForm == InitForm /\ [][NextForm]_vars

SpecNet == InitNet /\ [][NextNet]_vars

SpecChat == InitChat /\ [][NextChat]_vars
====
